---- MODULE Spec2Model ----
(***************************************************************************)
(* A model of telemetry_scan.py: the ITLA laser driver and its 4-byte      *)
(* frame codec, the Lumentum wavelength-switch client and its grid         *)
(* generator.  Python 2.7 semantics throughout (octal literals 01,         *)
(* struct.pack(">h") raising struct.error out of range, str(float) giving  *)
(* 12 significant digits).                                                 *)
(***************************************************************************)
EXTENDS Integers, Sequences, FiniteSets, TLC

VARIABLES
    connection,   \* ITLA.connection, the serial session: "open" or "closed"
    written,      \* frames the serial session received during the latest driver call
    call,         \* the latest ITLA call: [op, arg, raised]
    request,      \* the driver call the caller is about to make: [op, arg]
    codecIn,      \* (register, data) handed to the codec steps
    codecOut,     \* the frame the codec steps built from codecIn, <<>> before they ran
    gridIn,       \* what the caller is about to construct: a grid or one channel
    connections,  \* the list of WSSConnection objects the caller holds
    device,       \* the ROADM's connection table: <<module, connection>> -> config
    rpcLog,       \* the RPCs the NETCONF session dispatched during the latest call
    wssCall,      \* the latest Lumentum call: [op, module_id, connection_id, reply, returned]
    statusOut,    \* the list the latest wss_get_connections returned, <<>> otherwise
    switch,       \* the circuit switch: the set of cross-connects <<from, to>> in place
    tl1Written,   \* the command lines the telnet session received during the latest call
    tl1Call,      \* the latest circuit-switch call: [op, crs, raised, before]
    tl1Prev,      \* the circuit-switch call before the latest one
    port_data,    \* the response text get_crs_power reads, as its sequence of tokens
    portOut,      \* the list the latest get_crs_power returned
    pc,               \* the statement of the orchestration script that runs next
    outcome,          \* "running", "done", or the exception that ended the run
    power_reading,    \* the script's power_reading: a list returned by calient_get_power
    power_reading_count,
    r1_input_power,   \* in tenths of a dBm
    channel,          \* the sweep's current iteration: the script's channel is SweepChannels[channel]
    power,            \* the WSS status the sweep holds for channel: [connection_id, input_power]
    scopeData,        \* the script's data: the scope capture the sweep holds
    scan_data,        \* the OrderedDict, as the sequence of its [key, value] items
    cycle,            \* what a power-poll wait did since its last loop test
    consumed,         \* the readings the script has indexed with [1], latest last
    single_channel_probed_power,
    calls,            \* the device calls the latest step of the script made, in order
    dev,              \* the devices: [open, laser, crs, r_add, r_drop]
    predictIn,        \* the arguments of the power prediction
    predictOut        \* what the latest power prediction did: [called, raised, value]

itlaVars == <<connection, written, call, request>>
codecVars == <<codecIn, codecOut>>
gridVars == <<gridIn, connections>>
wssVars == <<device, rpcLog, wssCall, statusOut>>
calientVars == <<switch, tl1Written, tl1Call, tl1Prev, port_data, portOut>>
scanVars == <<pc, outcome, power_reading, power_reading_count, r1_input_power, channel,
              power, scopeData, scan_data, cycle, consumed, single_channel_probed_power,
              calls, dev>>
predictVars == <<predictIn, predictOut>>
vars == <<itlaVars, codecVars, gridVars, wssVars, calientVars, scanVars, predictVars>>

(***************************************************************************)
(* Bit operations on non-negative integers (Python's &, ^, <<, >>).        *)
(***************************************************************************)
RECURSIVE BitXor(_, _)
BitXor(a, b) ==
    IF a = 0 /\ b = 0 THEN 0
    ELSE (((a % 2) + (b % 2)) % 2) + 2 * BitXor(a \div 2, b \div 2)

RECURSIVE BitAnd(_, _)
BitAnd(a, b) ==
    IF a = 0 \/ b = 0 THEN 0
    ELSE ((a % 2) * (b % 2)) + 2 * BitAnd(a \div 2, b \div 2)

RECURSIVE Pow2(_)
Pow2(n) == IF n = 0 THEN 1 ELSE 2 * Pow2(n - 1)

ShiftLeft(a, n) == a * Pow2(n)
ShiftRight(a, n) == a \div Pow2(n)

(***************************************************************************)
(* ITLA.cal_checksum: the BIP4 of the four bytes of a frame.               *)
(***************************************************************************)
cal_checksum_nofold(data) ==
    BitXor(BitXor(BitXor(BitAnd(data[1], 15), data[2]), data[3]), data[4])

cal_checksum(data) ==
    LET bip8 == BitXor(BitXor(BitXor(BitAnd(data[1], 15), data[2]), data[3]), data[4])
        bip4 == BitXor(ShiftRight(BitAnd(bip8, 240), 4), BitAnd(bip8, 15))
    IN  bip4

(***************************************************************************)
(* struct.pack(">h", x): the two bytes of a signed 16-bit big-endian       *)
(* integer; struct.error (here <<>>) outside -32768..32767.                *)
(***************************************************************************)
PackFits(x) == x >= -32768 /\ x <= 32767

pack_h_little(x) ==
    LET u == IF x < 0 THEN x + 65536 ELSE x
    IN  <<u % 256, u \div 256>>

pack_h(x) ==
    LET u == IF x < 0 THEN x + 65536 ELSE x
    IN  <<u \div 256, u % 256>>

(***************************************************************************)
(* The codec steps every set_* method repeats: mode byte 01 (write), the   *)
(* register, the two packed data bytes, the checksum XORed into the high   *)
(* nibble of the first byte.  B is the packed data.                        *)
(***************************************************************************)
BuildFrame(register, B) ==
    LET data0 == 1
        data1 == register
        data2 == B[1]
        data3 == B[2]
        bip4  == cal_checksum(<<data0, data1, data2, data3>>)
    IN  <<BitXor(data0, ShiftLeft(bip4, 4)), data1, data2, data3>>

(***************************************************************************)
(* IEEE-754 binary64 evaluation of int(x * s), where x is the double       *)
(* nearest to the decimal n/d (what round(value, 2) and round(frac, 3)     *)
(* return for a value of two, resp. three, decimals) and s is a multiple   *)
(* of d, so that T = n*s/d is the integer the decimal arithmetic gives.    *)
(*   x = M * 2^-k with 2^52 <= M < 2^53, M the integer nearest to          *)
(*   n * 2^k / d; r is the remainder of n * 2^k by d, so x < n/d exactly   *)
(*   when 0 < r < d/2 and then n/d - x = r / (d * 2^k).                    *)
(*   x * s is rounded to the nearest double; the doubles just below T are  *)
(*   2^(m-52) apart, T in (2^m, 2^(m+1)], and the tie goes to T (even).    *)
(*   The product is below T, and int() truncates it to T - 1, exactly      *)
(*   when r * s / (d * 2^k) > 2^(m-53), i.e. r * (s/d) > 2^(m-1-e).        *)
(***************************************************************************)
RECURSIVE Log2Floor(_, _)
Log2Floor(n, d) ==
    IF n >= 2 * d THEN Log2Floor(n, 2 * d) + 1
    ELSE IF n < d THEN Log2Floor(2 * n, d) - 1
    ELSE 0

RECURSIVE Pow2Mod(_, _)
Pow2Mod(k, d) == IF k = 0 THEN 1 % d ELSE (2 * Pow2Mod(k - 1, d)) % d

FloatMulTrunc(n, d, s) ==
    IF n = 0 THEN 0
    ELSE
    LET e == Log2Floor(n, d)
        k == 52 - e
        r == (n * Pow2Mod(k, d)) % d
        T == (n * s) \div d
        m == IF T = 1 THEN -1 ELSE Log2Floor(T - 1, 1)
        below == /\ r # 0
                 /\ 2 * r < d
                 /\ IF m - 1 - e >= 0
                    THEN r * (s \div d) > Pow2(m - 1 - e)
                    ELSE r * (s \div d) * Pow2(e + 1 - m) > 1
    IN  IF below THEN T - 1 ELSE T

(***************************************************************************)
(* The ITLA driver.  A power is given in hundredths of a dBm (value =      *)
(* h / 100), a frequency in GHz (freq = g / 1000 THz).                     *)
(***************************************************************************)
PowerMargin == 10
FreqSpanGHz == 5999

PowerInputs == (600 - PowerMargin)..(1350 + PowerMargin)
ChannelInputs == 0..65535
FreqInputs == {191000 + g : g \in 0..FreqSpanGHz}

NoCall == [op |-> "none", arg |-> 0, raised |-> "none"]

\* serial.Serial.write on the session: pyserial raises on a port that is not open
SerialWrite(op, arg, frames) ==
    /\ written' = IF connection = "open" THEN frames ELSE <<>>
    /\ call' = [op |-> op, arg |-> arg,
                raised |-> IF connection = "open" THEN "none" ELSE "SerialException"]
    /\ UNCHANGED connection

Raise(op, arg, error) ==
    /\ written' = <<>>
    /\ call' = [op |-> op, arg |-> arg, raised |-> error]
    /\ UNCHANGED connection

\* ITLA.__init__: serial.Serial(port) opens the port; a port already open is refused
ITLA_init ==
    /\ connection' = "open"
    /\ written' = <<>>
    /\ call' = [op |-> "ITLA", arg |-> 0,
                raised |-> IF connection = "open" THEN "SerialException" ELSE "none"]
    /\ UNCHANGED <<request, codecVars, gridVars, wssVars, calientVars, scanVars, predictVars>>

close ==
    /\ connection' = "closed"
    /\ written' = <<>>
    /\ call' = [op |-> "close", arg |-> 0, raised |-> "none"]
    /\ UNCHANGED <<request, codecVars, gridVars, wssVars, calientVars, scanVars, predictVars>>

LaserOffFrame == <<1, 50, 0, 0>>
LaserOnFrame == <<129, 50, 0, 8>>

laser_off ==
    /\ SerialWrite("laser_off", 0, <<LaserOffFrame>>)
    /\ UNCHANGED <<request, codecVars, gridVars, wssVars, calientVars, scanVars, predictVars>>

laser_on ==
    /\ SerialWrite("laser_on", 0, <<LaserOnFrame>>)
    /\ UNCHANGED <<request, codecVars, gridVars, wssVars, calientVars, scanVars, predictVars>>

\* set_power's range test, value < 6 or value > 13.5
PowerRejectedOpen(h) == h <= 600 \/ h >= 1350

PowerRejected(h) == h < 600 \/ h > 1350

\* int(round(value, 2) * 100)
PowerSetValue(h) == FloatMulTrunc(h, 100, 100)

set_power(h) ==
    /\ IF PowerRejected(h)
       THEN Raise("set_power", h, "PowerLimitError")
       ELSE LET set_value == PowerSetValue(h)
            IN  IF PackFits(set_value)
                THEN SerialWrite("set_power", h, <<BuildFrame(49, pack_h(set_value))>>)
                ELSE Raise("set_power", h, "struct.error")
    /\ UNCHANGED <<request, codecVars, gridVars, wssVars, calientVars, scanVars, predictVars>>

set_channel(num) ==
    /\ IF PackFits(num)
       THEN SerialWrite("set_channel", num, <<BuildFrame(48, pack_h(num))>>)
       ELSE Raise("set_channel", num, "struct.error")
    /\ UNCHANGED <<request, codecVars, gridVars, wssVars, calientVars, scanVars, predictVars>>

\* FCF1 = int(math.floor(freq)); FCF2 = int(round(freq - FCF1, 3) * 10000)
FCF1(g) == g \div 1000
FCF2(g) == FloatMulTrunc(g % 1000, 1000, 10000)

\* cmd1 then, after time.sleep(0.01), cmd2
FrequencyFrames(g) ==
    <<BuildFrame(53, pack_h(FCF1(g))), BuildFrame(54, pack_h(FCF2(g)))>>

set_first_channel_frequency(g) ==
    /\ IF PackFits(FCF1(g)) /\ PackFits(FCF2(g))
       THEN SerialWrite("set_first_channel_frequency", g, FrequencyFrames(g))
       ELSE Raise("set_first_channel_frequency", g, "struct.error")
    /\ UNCHANGED <<request, codecVars, gridVars, wssVars, calientVars, scanVars, predictVars>>

(***************************************************************************)
(* Strings.  str(n) of an integer is its sequence of decimal digits.       *)
(* str(x) of a float keeps 12 significant digits: a frequency in GHz is    *)
(* held in tenths of a GHz and its string is <<integer part, first         *)
(* decimal>>, "191325.0" is <<191325, 0>>.                                 *)
(***************************************************************************)
RECURSIVE IntStr(_)
IntStr(n) == IF n < 10 THEN <<n>> ELSE Append(IntStr(n \div 10), n % 10)

RECURSIVE IntOfStr(_)
IntOfStr(d) ==
    IF Len(d) = 0 THEN 0
    ELSE 10 * IntOfStr(SubSeq(d, 1, Len(d) - 1)) + d[Len(d)]

FloatStr(tenths) == <<tenths \div 10, tenths % 10>>
FloatOfStr(str) == 10 * str[1] + str[2]

MUX == "1"
DEMUX == "2"
INSERVICE == "in-service"
DEFAULT_WSS_LOSS == "4.0"
ZERO_WSS_LOSS == "0.0"
MIDDLE_CHANNEL == 48
CHANNEL_HALF_WIDTH == 25

WSSConnection(module, connection_id, operation, blocked, input_port, output_port, start_freq, end_freq, attenuation, name) ==
    [module |-> module, connection_id |-> connection_id, operation |-> operation,
     blocked |-> blocked, input_port |-> input_port, output_port |-> output_port,
     start_freq |-> start_freq, end_freq |-> end_freq,
     attenuation |-> attenuation, name |-> name]

\* channel_freq(ch) * 1000, in GHz: the float 191.30 + ch * 0.05 is off by less
\* than 1e-10 GHz, which str() drops
channel_freq(ch) == 191300 + ch * 50

\* Lumentum.WSSConnection(module, str(ch), INSERVICE, 'false', '5101', port,
\*   str(channel_freq(ch) * 1000 - CHANNEL_HALF_WIDTH), str(... + CHANNEL_HALF_WIDTH),
\*   loss, 'CH' + str(ch))
ChannelConnection(module, ch, input_port, output_port, loss) ==
    WSSConnection(module, IntStr(ch), INSERVICE, "false", input_port, output_port,
                  FloatStr(10 * channel_freq(ch) - 10 * CHANNEL_HALF_WIDTH),
                  FloatStr(10 * channel_freq(ch) + 10 * CHANNEL_HALF_WIDTH),
                  loss, <<"CH", IntStr(ch)>>)

\* half_channel_width = channel_width / 2.0, in tenths of a GHz
half_channel_width_whole(channel_width) == 10 * channel_width

half_channel_width(channel_width) == 5 * channel_width

\* center_frequency = start_center_frequency + i * channel_spacing, in tenths of a GHz
center_frequency(i, channel_spacing) == 10 * 191350 + i * 10 * channel_spacing

gen_dwdm_connections(module, input_port, output_port, channel_spacing, channel_width, loss) ==
    [n \in 1..96 |->
        LET i == n - 1
        IN  WSSConnection(module, IntStr(i + 1), INSERVICE, "false", input_port, output_port,
                FloatStr(center_frequency(i, channel_spacing) - half_channel_width(channel_width)),
                FloatStr(center_frequency(i, channel_spacing) + half_channel_width(channel_width)),
                loss, <<"CH", IntStr(i + 1)>>)]

\* the connection_id 'all', spelled out: ids are digit strings of one or two characters
AllConnections == <<"a", "l", "l">>

EmptyTable == [k \in {} |-> 0]

NoWssCall ==
    [op |-> "none", module_id |-> "", connection_id |-> <<>>, reply |-> "", returned |-> ""]

WssIdle ==
    /\ device = EmptyTable
    /\ rpcLog = <<>>
    /\ wssCall = NoWssCall
    /\ statusOut = <<>>

NoTl1Call == [op |-> "none", crs |-> <<>>, raised |-> "none", before |-> {}]

CalientIdle ==
    /\ switch = {}
    /\ tl1Written = <<>>
    /\ tl1Call = NoTl1Call
    /\ tl1Prev = NoTl1Call
    /\ port_data = <<>>
    /\ portOut = <<>>

NoStatus == [connection_id |-> 0, input_power |-> 0]

\* the script before step 1.4
NoPredictIn ==
    [peak_voltage |-> 0, probed_power |-> 0, pd_response |-> 0, existing_channel_num |-> 0,
     ints |-> FALSE]

NoPredictOut == [called |-> FALSE, raised |-> "none", value |-> <<0, 1>>]

PredictIdle ==
    /\ predictIn = NoPredictIn
    /\ predictOut = NoPredictOut

\* a ROADM's connection table: module -> connection id -> the ports it joins;
\* a connection that is not configured joins no ports
ChannelIds == 1..96

NoRoute == [input_port |-> "", output_port |-> ""]

NoConnections == [module \in {MUX, DEMUX} |-> [id \in ChannelIds |-> NoRoute]]

NoDevice ==
    [open |-> 0, laser |-> "off", crs |-> {}, r_add |-> NoConnections, r_drop |-> NoConnections]

ScanIdle ==
    /\ pc = "start"
    /\ outcome = "running"
    /\ power_reading = <<>>
    /\ power_reading_count = 0
    /\ r1_input_power = 0
    /\ channel = 0
    /\ power = NoStatus
    /\ scopeData = <<>>
    /\ scan_data = <<>>
    /\ cycle = <<>>
    /\ consumed = <<>>
    /\ single_channel_probed_power = 0
    /\ calls = <<>>
    /\ dev = NoDevice

ITLARequests ==
    {[op |-> "set_power", arg |-> h] : h \in PowerInputs}
    \cup {[op |-> "set_channel", arg |-> num] : num \in ChannelInputs}
    \cup {[op |-> "set_first_channel_frequency", arg |-> g] : g \in FreqInputs}

ITLAIdle ==
    /\ connection = "closed"
    /\ written = <<>>
    /\ call = NoCall
    /\ request = [op |-> "none", arg |-> 0]

CodecIdle ==
    /\ codecIn = <<0, 0>>
    /\ codecOut = <<>>

GridIdle ==
    /\ gridIn = [kind |-> "none"]
    /\ connections = <<>>

(***************************************************************************)
(* The driver on an open session: the caller holds an ITLA object, makes   *)
(* the requested set_* call and switches the laser on and off.             *)
(***************************************************************************)
InitITLA ==
    /\ connection = "open"
    /\ written = <<>>
    /\ call = NoCall
    /\ request \in ITLARequests
    /\ CodecIdle
    /\ GridIdle
    /\ WssIdle
    /\ CalientIdle
    /\ ScanIdle
    /\ PredictIdle

NextITLA ==
    \/ laser_off
    \/ laser_on
    \/ request.op = "set_power" /\ set_power(request.arg)
    \/ request.op = "set_channel" /\ set_channel(request.arg)
    \/ request.op = "set_first_channel_frequency"
          /\ set_first_channel_frequency(request.arg)

SpecITLA == InitITLA /\ [][NextITLA]_vars

(***************************************************************************)
(* The codec steps on their own: Init draws (register, data), Encode       *)
(* builds the frame as set_channel does (lines 416-425).  Every register   *)
(* byte meets the data values around the sign and byte boundaries, and     *)
(* register 0x30 meets every signed 16-bit data value.                     *)
(***************************************************************************)
CodecSpan == 40

CodecDataSamples ==
    ((-32768)..(-32768 + CodecSpan))
    \cup ((-CodecSpan - 1)..CodecSpan)
    \cup ((32767 - CodecSpan)..32767)

CodecInputs ==
    ((0..255) \X CodecDataSamples) \cup ({48} \X ((-32768)..32767))

Encode ==
    /\ codecOut = <<>>
    /\ PackFits(codecIn[2])
    /\ codecOut' = BuildFrame(codecIn[1], pack_h(codecIn[2]))
    /\ UNCHANGED <<itlaVars, codecIn, gridVars, wssVars, calientVars, scanVars, predictVars>>

InitCodec ==
    /\ ITLAIdle
    /\ codecIn \in CodecInputs
    /\ codecOut = <<>>
    /\ GridIdle
    /\ WssIdle
    /\ CalientIdle
    /\ ScanIdle
    /\ PredictIdle

NextCodec == Encode

SpecCodec == InitCodec /\ [][NextCodec]_vars

(***************************************************************************)
(* Building connections: Init draws what the caller constructs, the full   *)
(* grid for a spacing and a width in GHz (lines 707, 712) or the           *)
(* connection of one channel (lines 721-724).                              *)
(***************************************************************************)
GridSpan == 2

GridWidths == (-GridSpan)..(50 + GridSpan)

GridInputs ==
    {[kind |-> "grid", channel_spacing |-> sp, channel_width |-> w] :
        sp \in GridWidths, w \in GridWidths}
    \cup {[kind |-> "channel", ch |-> ch] : ch \in 1..96}

GenerateGrid ==
    /\ gridIn.kind = "grid"
    /\ connections' = gen_dwdm_connections(DEMUX, "5101", "5203",
                          gridIn.channel_spacing, gridIn.channel_width, DEFAULT_WSS_LOSS)
    /\ UNCHANGED <<itlaVars, codecVars, gridIn, wssVars, calientVars, scanVars, predictVars>>

ConstructChannel ==
    /\ gridIn.kind = "channel"
    /\ connections' = <<ChannelConnection(DEMUX, gridIn.ch, "5101", "5204", DEFAULT_WSS_LOSS)>>
    /\ UNCHANGED <<itlaVars, codecVars, gridIn, wssVars, calientVars, scanVars, predictVars>>

InitGrid ==
    /\ ITLAIdle
    /\ CodecIdle
    /\ gridIn \in GridInputs
    /\ connections = <<>>
    /\ WssIdle
    /\ CalientIdle
    /\ ScanIdle
    /\ PredictIdle

NextGrid ==
    \/ GenerateGrid
    \/ ConstructChannel

SpecGrid == InitGrid /\ [][NextGrid]_vars

(***************************************************************************)
(* The Lumentum client.  An XML document is held as its parsed tree; a dn  *)
(* "ne=1;chassis=1;card=1;module=m;connection=c" is the sequence of its    *)
(* key=value pairs.                                                        *)
(***************************************************************************)
CardDn == <<<<"ne", "1">>, <<"chassis", "1">>, <<"card", "1">>>>

\* wss_add_connections.gen_connection_xml
gen_connection_xml(wss_connection) ==
    [dn |-> CardDn \o <<<<"module", wss_connection.module>>,
                        <<"connection", wss_connection.connection_id>>>>,
     config |->
        [maintenance_state |-> wss_connection.operation,
         blocked |-> wss_connection.blocked,
         start_freq |-> wss_connection.start_freq,
         end_freq |-> wss_connection.end_freq,
         attenuation |-> wss_connection.attenuation,
         input_port_reference |-> CardDn \o <<<<"port", wss_connection.input_port>>>>,
         output_port_reference |-> CardDn \o <<<<"port", wss_connection.output_port>>>>,
         custom_name |-> wss_connection.name]]

\* services: one <xc:config> holding the <connection> elements of the whole list
services(conns) ==
    [rpc |-> "edit_config", target |-> "running",
     connections |-> [i \in 1..Len(conns) |-> gen_connection_xml(conns[i])]]

AddDocumentsPerConnection(conns) ==
    [i \in 1..Len(conns) |-> services(<<conns[i]>>)]

\* the documents wss_add_connections hands to self.m.edit_config, in order
AddDocuments(conns) == <<services(conns)>>

\* the RPC wss_delete_connection dispatches
DeleteRpc(module_id, connection_id) ==
    IF connection_id = AllConnections
    THEN [rpc |-> "remove-all-connections",
          dn |-> CardDn \o <<<<"module", module_id>>>>]
    ELSE [rpc |-> "delete-connection",
          dn |-> CardDn \o <<<<"module", module_id>>, <<"connection", connection_id>>>>]

\* what the caller of wss_delete_connection sees: the try/except prints and returns
DeleteReturnsPropagating(reply) == IF reply = "ok" THEN "normal" ELSE "raised"

DeleteReturns(reply) == "normal"

(***************************************************************************)
(* The ROADM behind the session (spec 4.3, 6): an edit-config is applied   *)
(* as a whole or not at all, delete-connection removes one connection,     *)
(* remove-all-connections every connection of one module.                  *)
(***************************************************************************)
ElementKey(element) == <<element.dn[4][2], element.dn[5][2]>>

RECURSIVE DeviceApply(_, _)
DeviceApply(table, elements) ==
    IF elements = <<>> THEN table
    ELSE LET el == Head(elements)
             key == ElementKey(el)
             merged == [k \in DOMAIN table \cup {key} |->
                           IF k = key THEN el.config ELSE table[k]]
         IN  DeviceApply(merged, Tail(elements))

DeviceDelete(table, key) ==
    [k \in DOMAIN table \ {key} |-> table[k]]

DeviceRemoveAll(table, module) ==
    [k \in {x \in DOMAIN table : x[1] # module} |-> table[k]]

\* the table after the first n documents were applied
RECURSIVE DeviceApplyDocuments(_, _, _)
DeviceApplyDocuments(table, docs, n) ==
    IF n = 0 THEN table
    ELSE DeviceApply(DeviceApplyDocuments(table, docs, n - 1), docs[n].connections)

(***************************************************************************)
(* wss_add_connections: each document goes out in one edit_config; the     *)
(* device applies it (ok) or the call raises (an rpc-error reply or a      *)
(* failed session), which the except clause prints.                        *)
(***************************************************************************)
wss_add_connections ==
    LET docs == AddDocuments(connections)
    IN  \E applied \in 0..Len(docs) :
        \E failure \in {"rpc-error", "transport"} :
            LET sent == IF applied < Len(docs) THEN applied + 1 ELSE applied
            IN  /\ rpcLog' = SubSeq(docs, 1, sent)
                /\ device' = DeviceApplyDocuments(device, docs, applied)
                /\ wssCall' = [op |-> "wss_add_connections", module_id |-> "",
                               connection_id |-> <<>>,
                               reply |-> IF applied = Len(docs) THEN "ok" ELSE failure,
                               returned |-> "normal"]
                /\ statusOut' = <<>>
                /\ UNCHANGED <<itlaVars, codecVars, gridVars, calientVars, scanVars, predictVars>>

Modules == {MUX, DEMUX}
ConnectionIds == {IntStr(1), IntStr(2)}
OutputPorts == {"5203", "5204"}

wss_delete_connection(module_id, connection_id) ==
    \E reply \in {"ok", "rpc-error", "transport"} :
        LET present == connection_id = AllConnections
                       \/ <<module_id, connection_id>> \in DOMAIN device
        IN  \* a device that holds the connection deletes it and replies ok
            /\ present => reply # "rpc-error"
            /\ rpcLog' = <<DeleteRpc(module_id, connection_id)>>
            /\ device' = IF reply # "ok" THEN device
                         ELSE IF connection_id = AllConnections
                              THEN DeviceRemoveAll(device, module_id)
                              ELSE DeviceDelete(device, <<module_id, connection_id>>)
            /\ wssCall' = [op |-> "wss_delete_connection", module_id |-> module_id,
                           connection_id |-> connection_id, reply |-> reply,
                           returned |-> DeleteReturns(reply)]
            /\ statusOut' = <<>>
            /\ UNCHANGED <<itlaVars, codecVars, gridVars, calientVars, scanVars, predictVars>>

(***************************************************************************)
(* wss_get_connections.  The reply to the <get> is the sequence of its     *)
(* <connection> elements, each a record of the children it has; an empty   *)
(* element <connection/> is the record with no field.                      *)
(***************************************************************************)
ConfigChildren ==
    {"maintenance_state", "blocked", "start_freq", "end_freq", "attenuation",
     "input_port_reference", "output_port_reference", "custom_name"}

\* xmltodict.parse(conn.data_xml)['data']['connections']: without a <connection>
\* child there is no 'connection' key, one child gives its dict, several children
\* the list of their dicts
xmltodict_parse(records) ==
    IF Len(records) = 0 THEN [kind |-> "absent"]
    ELSE IF Len(records) = 1 THEN [kind |-> "dict", dict |-> records[1]]
    ELSE [kind |-> "list", list |-> records]

\* the exception the cls(...) call of from_connection_details raises on one record
RecordError(connection_detail) ==
    IF "dn" \notin DOMAIN connection_detail THEN "KeyError"
    ELSE IF Len(connection_detail.dn) < 5 THEN "IndexError"
    ELSE IF "config" \notin DOMAIN connection_detail THEN "KeyError"
    ELSE IF ~(ConfigChildren \subseteq DOMAIN connection_detail.config) THEN "KeyError"
    ELSE IF Len(connection_detail.config.input_port_reference) < 4 THEN "IndexError"
    ELSE IF Len(connection_detail.config.output_port_reference) < 4 THEN "IndexError"
    ELSE IF "state" \notin DOMAIN connection_detail THEN "KeyError"
    ELSE IF "input_channel_attributes" \notin DOMAIN connection_detail.state THEN "KeyError"
    ELSE IF "power" \notin DOMAIN connection_detail.state.input_channel_attributes
         THEN "KeyError"
    ELSE IF "output_channel_attributes" \notin DOMAIN connection_detail.state THEN "KeyError"
    ELSE IF "power" \notin DOMAIN connection_detail.state.output_channel_attributes
         THEN "KeyError"
    ELSE "none"

WSSConnectionStatus(module, connection_id, operation, blocked, input_port, output_port, start_freq, end_freq, attenuation, name, input_power, output_power, ne, chassis, card) ==
    [module |-> module, connection_id |-> connection_id, operation |-> operation,
     blocked |-> blocked, input_port |-> input_port, output_port |-> output_port,
     start_freq |-> start_freq, end_freq |-> end_freq,
     attenuation |-> attenuation, name |-> name,
     input_power |-> input_power, output_power |-> output_power,
     ne |-> ne, chassis |-> chassis, card |-> card]

StatusOfDetailPortsSwapped(connection_detail) ==
    WSSConnectionStatus(
        connection_detail.dn[4][2],
        connection_detail.dn[5][2],
        connection_detail.config.maintenance_state,
        connection_detail.config.blocked,
        connection_detail.config.output_port_reference[4][2],
        connection_detail.config.input_port_reference[4][2],
        connection_detail.config.start_freq,
        connection_detail.config.end_freq,
        connection_detail.config.attenuation,
        connection_detail.config.custom_name,
        connection_detail.state.input_channel_attributes.power,
        connection_detail.state.output_channel_attributes.power,
        connection_detail.dn[1][2],
        connection_detail.dn[2][2],
        connection_detail.dn[3][2])

\* the cls(...) call of from_connection_details on one complete record
StatusOfDetail(connection_detail) ==
    WSSConnectionStatus(
        connection_detail.dn[4][2],
        connection_detail.dn[5][2],
        connection_detail.config.maintenance_state,
        connection_detail.config.blocked,
        connection_detail.config.input_port_reference[4][2],
        connection_detail.config.output_port_reference[4][2],
        connection_detail.config.start_freq,
        connection_detail.config.end_freq,
        connection_detail.config.attenuation,
        connection_detail.config.custom_name,
        connection_detail.state.input_channel_attributes.power,
        connection_detail.state.output_channel_attributes.power,
        connection_detail.dn[1][2],
        connection_detail.dn[2][2],
        connection_detail.dn[3][2])

\* WSSConnectionStatus.from_connection_details: [raised, value].  A missing
\* 'connection' key is a KeyError; iterating a dict yields its keys, and indexing a
\* key (a string) with 'dn' is a TypeError; the comprehension skips a falsy (empty)
\* element of a list.
from_connection_details(connection_details) ==
    IF connection_details.kind = "absent" THEN [raised |-> "KeyError", value |-> <<>>]
    ELSE IF connection_details.kind = "dict" THEN [raised |-> "TypeError", value |-> <<>>]
    ELSE LET kept == SelectSeq(connection_details.list, LAMBDA cd : DOMAIN cd # {})
             bad == {i \in 1..Len(kept) : RecordError(kept[i]) # "none"}
         IN  IF bad # {}
             THEN [raised |-> RecordError(kept[CHOOSE i \in bad : \A j \in bad : i <= j]),
                   value |-> <<>>]
             ELSE [raised |-> "none",
                   value |-> [i \in 1..Len(kept) |-> StatusOfDetail(kept[i])]]

ModuleOrder == <<MUX, DEMUX>>
ConnectionIdOrder == <<IntStr(1), IntStr(2)>>

\* the keys of the table in the order the ROADM lists them
KeyOrder ==
    [n \in 1..(Len(ModuleOrder) * Len(ConnectionIdOrder)) |->
        <<ModuleOrder[((n - 1) \div Len(ConnectionIdOrder)) + 1],
          ConnectionIdOrder[((n - 1) % Len(ConnectionIdOrder)) + 1]>>]

\* the <connection> element the ROADM reports for one entry of its table
DeviceRecord(table, key, input_power, output_power) ==
    [dn |-> CardDn \o <<<<"module", key[1]>>, <<"connection", key[2]>>>>,
     config |-> table[key],
     state |-> [input_channel_attributes |-> [power |-> input_power],
                output_channel_attributes |-> [power |-> output_power]]]

Without(record, field) == [f \in DOMAIN record \ {field} |-> record[f]]

\* a reply element as a faulty ROADM or a lossy session may deliver it
Damaged(record, damage) ==
    CASE damage = "none" -> record
      [] damage = "empty" -> <<>>
      [] damage = "no-dn-connection" -> [record EXCEPT !.dn = SubSeq(record.dn, 1, 4)]
      [] damage = "no-attenuation" ->
            [record EXCEPT !.config = Without(record.config, "attenuation")]
      [] damage = "no-state" -> Without(record, "state")
      [] damage = "no-input-power" ->
            [record EXCEPT !.state.input_channel_attributes = <<>>]

Damages ==
    {"none", "empty", "no-dn-connection", "no-attenuation", "no-state", "no-input-power"}

DeviceReply(table, input_power, damage, at) ==
    LET keys == SelectSeq(KeyOrder, LAMBDA k : k \in DOMAIN table)
    IN  [i \in 1..Len(keys) |->
            Damaged(DeviceRecord(table, keys[i], input_power, "-8.0"),
                    IF i = at THEN damage ELSE "none")]

wss_get_connections ==
    \E reply \in {"ok", "rpc-error", "transport"} :
    \E damage \in Damages, at \in 1..2 :
        LET data == IF reply = "ok" THEN DeviceReply(device, "-5.0", damage, at)
                    ELSE <<>>
            \* after the except clause connection_details is unbound
            parsed == IF reply = "ok" THEN from_connection_details(xmltodict_parse(data))
                      ELSE [raised |-> "UnboundLocalError", value |-> <<>>]
        IN  \* the reply of a failed RPC carries no data to damage
            /\ reply # "ok" => damage = "none"
            /\ damage = "none" => at = 1
            /\ rpcLog' = <<[rpc |-> "get", data |-> data]>>
            /\ wssCall' = [op |-> "wss_get_connections", module_id |-> "",
                           connection_id |-> <<>>, reply |-> reply,
                           returned |-> IF parsed.raised = "none" THEN "normal"
                                        ELSE parsed.raised]
            /\ statusOut' = parsed.value
            /\ UNCHANGED <<device, itlaVars, codecVars, gridVars, calientVars, scanVars, predictVars>>

(***************************************************************************)
(* The client against one ROADM: Init draws the list the caller adds.      *)
(***************************************************************************)
MaxBatch == 2

RECURSIVE SeqsUpTo(_, _)
SeqsUpTo(S, n) ==
    IF n = 0 THEN {<<>>}
    ELSE LET shorter == SeqsUpTo(S, n - 1)
         IN  shorter \cup {Append(q, x) : q \in {t \in shorter : Len(t) = n - 1}, x \in S}

ConnectionInputs ==
    {ChannelConnection(m, IntOfStr(c), "5101", p, DEFAULT_WSS_LOSS) :
        m \in Modules, c \in ConnectionIds, p \in OutputPorts}

InitWSS ==
    /\ ITLAIdle
    /\ CodecIdle
    /\ gridIn = [kind |-> "none"]
    /\ connections \in SeqsUpTo(ConnectionInputs, MaxBatch)
    /\ WssIdle
    /\ CalientIdle
    /\ ScanIdle
    /\ PredictIdle

NextWSS ==
    \/ wss_add_connections
    \/ wss_get_connections
    \/ \E m \in Modules, c \in ConnectionIds \cup {AllConnections} :
          wss_delete_connection(m, c)

SpecWSS == InitWSS /\ [][NextWSS]_vars

(***************************************************************************)
(* The circuit switch client.  A cross-connect spec "a>b" is the pair      *)
(* <<a, b>> of its port addresses; a command line "verb::arg;\n" is the    *)
(* record of its verb and argument.                                        *)
(***************************************************************************)
TELEMETRY_TX_CONNECTION == <<"5.8.6", "1.4.4">>
TELEMETRY_RX_CONNECTION == <<"1.2.4", "5.8.6">>
TELEMETRY_RX_PARKING == <<"1.2.4", "6.1.1">>
POWER_CHECK_PORT == "1.2.4"
POWER_CHECK_PORT_TELEMETRY_TX == "5.8.6"

CrsSpecs == {TELEMETRY_TX_CONNECTION, TELEMETRY_RX_CONNECTION, TELEMETRY_RX_PARKING}

\* the cross-connects in place that use the input or the output port of crs
Conflicting(crs, crss) == {x \in crss : x # crs /\ (x[1] = crs[1] \/ x[2] = crs[2])}

(* The switch carrying out ent-crs-bulk: a cross-connect already in place    *)
(* stays; one whose port is in use is refused or takes the port over; any    *)
(* other is put in place.                                                    *)
SwitchEnt(crss, crs, busy) ==
    IF crs \in crss THEN crss
    ELSE IF Conflicting(crs, crss) = {} THEN crss \cup {crs}
    ELSE IF busy = "refused" THEN crss
    ELSE (crss \ Conflicting(crs, crss)) \cup {crs}

\* the switch carrying out dlt-crs-bulk
SwitchDlt(crss, crs) == crss \ {crs}

\* the switch carrying out one command line
SwitchExecute(crss, line, busy) ==
    IF line.verb = "ent-crs-bulk" THEN SwitchEnt(crss, line.arg, busy)
    ELSE IF line.verb = "dlt-crs-bulk" THEN SwitchDlt(crss, line.arg)
    ELSE crss

\* telnetlib.Telnet(HOST, PORT), tn.write(AUTH), tn.write(line), tn.close(): the
\* reply is never read; a host that cannot be reached raises socket.error
Tl1Session(op, line) ==
    \E reached \in BOOLEAN, busy \in {"refused", "replaced"} :
        /\ tl1Written' = IF reached THEN <<"AUTH", line>> ELSE <<>>
        /\ switch' = IF reached THEN SwitchExecute(switch, line, busy) ELSE switch
        /\ tl1Call' = [op |-> op, crs |-> line.arg,
                       raised |-> IF reached THEN "none" ELSE "socket.error",
                       before |-> switch]
        /\ tl1Prev' = tl1Call
        /\ UNCHANGED <<port_data, portOut, itlaVars, codecVars, gridVars, wssVars, scanVars, predictVars>>

\* "ent-crs-bulk::{};\n".format(crs)
AddCommand(crs) == [verb |-> "ent-crs-bulk", arg |-> crs]

DelCommandEnt(crs) == [verb |-> "ent-crs-bulk", arg |-> crs]

\* "dlt-crs-bulk::{};\n".format(crs)
DelCommand(crs) == [verb |-> "dlt-crs-bulk", arg |-> crs]

Add_CRS_Calient(crs) == Tl1Session("Add_CRS_Calient", AddCommand(crs))

Del_CRS_Calient(crs) == Tl1Session("Del_CRS_Calient", DelCommand(crs))

InitCalient ==
    /\ ITLAIdle
    /\ CodecIdle
    /\ GridIdle
    /\ WssIdle
    /\ switch \in {crss \in SUBSET CrsSpecs : \A x \in crss : Conflicting(x, crss) = {}}
    /\ tl1Written = <<>>
    /\ tl1Call = NoTl1Call
    /\ tl1Prev = NoTl1Call
    /\ port_data = <<>>
    /\ portOut = <<>>
    /\ ScanIdle
    /\ PredictIdle

NextCalient ==
    \E crs \in CrsSpecs :
        \/ Add_CRS_Calient(crs)
        \/ Del_CRS_Calient(crs)

SpecCalient == InitCalient /\ [][NextCalient]_vars

(***************************************************************************)
(* get_crs_power.  The response text is the sequence of its tokens; a      *)
(* token is [name, value, wellformed]: "INPWR=-3.2" is an INPWR token      *)
(* whose value is a signed decimal (wellformed), "INPWR=" one whose value  *)
(* is not, "1.2.4>5.8.6" a crs token of two port addresses of digits 1-9.  *)
(***************************************************************************)
pattern1 == "crs"
pattern2 == "INPWR"
pattern3 == "OUTPWR"

\* re.search(pattern, port_data): the index of the first token the pattern matches,
\* 0 for None
re_search(pattern, data) ==
    LET hits == {i \in 1..Len(data) : data[i].name = pattern /\ data[i].wellformed}
    IN  IF hits = {} THEN 0 ELSE CHOOSE i \in hits : \A j \in hits : i <= j

NoMatch == [name |-> "None", value |-> "", wellformed |-> FALSE]

port_fields_padded(data) ==
    LET crs == re_search(pattern1, data)
        input_power == re_search(pattern2, data)
        output_power == re_search(pattern3, data)
    IN  <<IF crs # 0 THEN data[crs] ELSE NoMatch,
          IF input_power # 0 THEN data[input_power] ELSE NoMatch,
          IF output_power # 0 THEN data[output_power] ELSE NoMatch>>

\* the list port that get_crs_power builds and returns
port_fields(data) ==
    LET crs == re_search(pattern1, data)
        input_power == re_search(pattern2, data)
        output_power == re_search(pattern3, data)
    IN  (IF crs # 0 THEN <<data[crs]>> ELSE <<>>)
        \o (IF input_power # 0 THEN <<data[input_power]>> ELSE <<>>)
        \o (IF output_power # 0 THEN <<data[output_power]>> ELSE <<>>)

get_crs_power(_port) ==
    /\ tl1Written' = <<[verb |-> "RTRV-PORT-SUM", arg |-> _port]>>
    /\ portOut' = port_fields(port_data)
    /\ tl1Call' = [op |-> "get_crs_power", crs |-> <<>>, raised |-> "none",
                   before |-> switch]
    /\ tl1Prev' = tl1Call
    /\ UNCHANGED <<switch, port_data, itlaVars, codecVars, gridVars, wssVars, scanVars, predictVars>>

MaxTokens == 3

ResponseTokens ==
    {[name |-> "crs", value |-> "1.2.4>5.8.6", wellformed |-> TRUE],
     [name |-> "INPWR", value |-> "-3.2", wellformed |-> TRUE],
     [name |-> "INPWR", value |-> "-12.0", wellformed |-> TRUE],
     [name |-> "INPWR", value |-> "", wellformed |-> FALSE],
     [name |-> "OUTPWR", value |-> "-4.1", wellformed |-> TRUE],
     [name |-> "text", value |-> "COMPLD", wellformed |-> TRUE]}

InitPortSum ==
    /\ ITLAIdle
    /\ CodecIdle
    /\ GridIdle
    /\ WssIdle
    /\ switch = {}
    /\ tl1Written = <<>>
    /\ tl1Call = NoTl1Call
    /\ tl1Prev = NoTl1Call
    /\ port_data \in SeqsUpTo(ResponseTokens, MaxTokens)
    /\ portOut = <<>>
    /\ ScanIdle
    /\ PredictIdle

NextPortSum ==
    \E _port \in {POWER_CHECK_PORT, POWER_CHECK_PORT_TELEMETRY_TX} : get_crs_power(_port)

SpecPortSum == InitPortSum /\ [][NextPortSum]_vars

(***************************************************************************)
(* The power prediction.  A number the function divides is an integer; a   *)
(* quotient is the pair <<numerator, denominator>> with a positive         *)
(* denominator.  math.log10 and 10 ** x are monotone, so what decides the  *)
(* function's outcome is the sign of the argument of each linear_to_db;    *)
(* the returned number is held as the quotient whose logarithm it is.      *)
(***************************************************************************)
\* a / b of Python 2: floor division of two ints, true division otherwise
PyDiv(a, b, ints) ==
    IF b = 0 THEN [raised |-> "ZeroDivisionError", value |-> <<0, 1>>]
    ELSE LET num == IF b < 0 THEN -a ELSE a
             den == IF b < 0 THEN -b ELSE b
         IN  [raised |-> "none",
              value |-> IF ints THEN <<num \div den, 1>> ELSE <<num, den>>]

linear_to_db_strict(linear_power_value) ==
    IF linear_power_value[1] < 0 THEN [raised |-> "ValueError", value |-> <<0, 1>>]
    ELSE [raised |-> "none", value |-> linear_power_value]

\* lines 487-490: the value stands for 10 * math.log10(linear_power_value)
linear_to_db(linear_power_value) ==
    IF linear_power_value[1] <= 0 THEN [raised |-> "ValueError", value |-> <<0, 1>>]
    ELSE [raised |-> "none", value |-> linear_power_value]

\* lines 492-493, for the powers -10, 0 and 10 dBm: 10 ** (dbm_power_value / 10.0)
db_to_linear(dbm_power_value) ==
    IF dbm_power_value = -10 THEN <<1, 10>>
    ELSE IF dbm_power_value = 10 THEN <<10, 1>>
    ELSE <<1, 1>>

(* lines 495-504.  edfa_gain_linear is target_gain_linear times             *)
(* (peak_voltage / pd_response) / db_to_linear(probed_power), so            *)
(* mean_gain_linear is target_gain_linear, which is positive, times         *)
(* (that quotient + existing_channel_num) / (existing_channel_num + 1).     *)
calculate_predicted_channel_power_from_peak_voltage(peak_voltage, probed_power, pd_response, existing_channel_num, ints) ==
    LET quotient == PyDiv(peak_voltage, pd_response, ints)
    IN  IF quotient.raised # "none" THEN quotient
        ELSE LET peak_power_dbm == linear_to_db(quotient.value)
             IN  IF peak_power_dbm.raised # "none" THEN peak_power_dbm
                 ELSE LET probed == db_to_linear(probed_power)
                          ripple == <<quotient.value[1] * probed[2], quotient.value[2] * probed[1]>>
                          sum == <<ripple[1] + existing_channel_num * ripple[2], ripple[2]>>
                          mean == PyDiv(sum[1], sum[2] * (existing_channel_num + 1), FALSE)
                      IN  IF mean.raised # "none" THEN mean
                          ELSE LET mean_gain_db == linear_to_db(mean.value)
                               IN  IF mean_gain_db.raised # "none" THEN mean_gain_db
                                   ELSE [raised |-> "none", value |-> quotient.value]

PredictSpan == 2

PredictInputs ==
    [peak_voltage : (-PredictSpan)..PredictSpan,
     probed_power : {-10, 0, 10},
     pd_response : (-PredictSpan)..PredictSpan,
     existing_channel_num : (-1)..PredictSpan,
     ints : BOOLEAN]

Predict ==
    /\ ~ predictOut.called
    /\ LET result == calculate_predicted_channel_power_from_peak_voltage(
                         predictIn.peak_voltage, predictIn.probed_power,
                         predictIn.pd_response, predictIn.existing_channel_num,
                         predictIn.ints)
       IN  predictOut' = [called |-> TRUE, raised |-> result.raised, value |-> result.value]
    /\ UNCHANGED <<predictIn, itlaVars, codecVars, gridVars, wssVars, calientVars, scanVars>>

InitPredict ==
    /\ ITLAIdle
    /\ CodecIdle
    /\ GridIdle
    /\ WssIdle
    /\ CalientIdle
    /\ ScanIdle
    /\ predictIn \in PredictInputs
    /\ predictOut = NoPredictOut

NextPredict == Predict

SpecPredict == InitPredict /\ [][NextPredict]_vars

(***************************************************************************)
(* The device calls of the script.  A call is a record of the device it    *)
(* goes to (target), the function called (op) and its arguments; dev is    *)
(* what the calls act on: the number of ITLA serial sessions open, whether *)
(* the laser emits, the circuit switch's cross-connects and the connection *)
(* tables of the add and the drop ROADM.  The ROADMs carry out every RPC   *)
(* they are sent.                                                          *)
(***************************************************************************)
CalientCall(op, crs) == [target |-> "calient", op |-> op, crs |-> crs, module |-> "", ids |-> {}, input_port |-> "", output_port |-> ""]

\* Add_CRS_Calient(HOST, PORT, AUTH, crs), Del_CRS_Calient(HOST, PORT, AUTH, crs)
AddCrs(crs) == CalientCall("Add_CRS_Calient", crs)

DelCrs(crs) == CalientCall("Del_CRS_Calient", crs)

\* calient_get_power(port)
GetPower(port) == CalientCall("calient_get_power", <<port>>)

\* ITLA(port), itla.laser_off(), itla.laser_on(), itla.set_power(7),
\* itla.set_first_channel_frequency(freq), itla.close()
Itla(op) == [target |-> "itla", op |-> op, crs |-> <<>>, module |-> "", ids |-> {}, input_port |-> "", output_port |-> ""]

WssCall(node, op, module, ids, input_port, output_port) == [target |-> node, op |-> op, crs |-> <<>>, module |-> module, ids |-> ids, input_port |-> input_port, output_port |-> output_port]

\* node.wss_delete_connection(module, 'all') and node.wss_delete_connection(module, id)
WssDeleteAll(node, module) == WssCall(node, "wss_delete_connection", module, ChannelIds, "", "")

WssDelete(node, module, id) == WssCall(node, "wss_delete_connection", module, {id}, "", "")

\* node.wss_add_connections(node.gen_dwdm_connections(module, input_port, output_port))
WssAddGrid(node, module, input_port, output_port) == WssCall(node, "wss_add_connections", module, ChannelIds, input_port, output_port)

\* node.wss_add_connections([Lumentum.WSSConnection(module, str(id), ..., input_port,
\* output_port, ...)])
WssAddOne(node, module, id, input_port, output_port) == WssCall(node, "wss_add_connections", module, {id}, input_port, output_port)

\* node.wss_get_connections()
WssGet(node) == WssCall(node, "wss_get_connections", "", {}, "", "")

ItlaWrites == {"laser_off", "laser_on", "set_power", "set_first_channel_frequency"}

\* the connection table after a call to its ROADM
TableApply(table, c) ==
    IF c.op = "wss_delete_connection"
    THEN [table EXCEPT ![c.module] =
             [id \in ChannelIds |-> IF id \in c.ids THEN NoRoute ELSE table[c.module][id]]]
    ELSE IF c.op = "wss_add_connections"
    THEN [table EXCEPT ![c.module] =
             [id \in ChannelIds |->
                 IF id \in c.ids
                 THEN [input_port |-> c.input_port, output_port |-> c.output_port]
                 ELSE table[c.module][id]]]
    ELSE table

\* the devices after a call that returned
DevApply(d, c, busy) ==
    IF c.target = "calient"
    THEN IF c.op = "Add_CRS_Calient"
         THEN [d EXCEPT !.crs = SwitchExecute(d.crs, AddCommand(c.crs), busy)]
         ELSE IF c.op = "Del_CRS_Calient"
         THEN [d EXCEPT !.crs = SwitchExecute(d.crs, DelCommand(c.crs), busy)]
         ELSE d
    ELSE IF c.target = "itla"
    THEN IF c.op = "ITLA" THEN [d EXCEPT !.open = d.open + 1]
         ELSE IF c.op = "close" THEN [d EXCEPT !.open = IF d.open > 0 THEN d.open - 1 ELSE 0]
         ELSE IF c.op = "laser_on" THEN [d EXCEPT !.laser = "on"]
         ELSE IF c.op = "laser_off" THEN [d EXCEPT !.laser = "off"]
         ELSE d
    ELSE IF c.target = "r_add" THEN [d EXCEPT !.r_add = TableApply(d.r_add, c)]
    ELSE [d EXCEPT !.r_drop = TableApply(d.r_drop, c)]

\* the exceptions a call can raise: telnetlib.Telnet and serial.Serial raise when
\* the device cannot be reached, a write to a closed serial port raises; the
\* Lumentum methods catch what their RPC raises
Raises(d, c) ==
    IF c.target = "calient" THEN {"socket.error"}
    ELSE IF c.target = "itla" /\ c.op = "ITLA" THEN {"SerialException"}
    ELSE IF c.target = "itla" /\ c.op \in ItlaWrites /\ d.open = 0 THEN {"SerialException"}
    ELSE {}

Returns(d, c) == ~ (c.target = "itla" /\ c.op \in ItlaWrites /\ d.open = 0)

\* the devices after the first n of the calls returned
RECURSIVE DevAfter(_, _, _, _)
DevAfter(d, cs, n, busy) ==
    IF n = 0 THEN d ELSE DevApply(DevAfter(d, cs, n - 1, busy), cs[n], busy)

\* the ways the calls cs can go from the n-th on: [raised, done, dev], done the
\* number of calls made, the one that raised included
RECURSIVE RunFrom(_, _, _, _)
RunFrom(d, cs, n, busy) ==
    IF n > Len(cs) THEN {[raised |-> "none", done |-> Len(cs), dev |-> d]}
    ELSE {[raised |-> e, done |-> n, dev |-> d] : e \in Raises(d, cs[n])}
         \cup (IF Returns(d, cs[n])
               THEN UNION {RunFrom(after, cs, n + 1, busy) :
                               after \in {DevApply(d, cs[n], busy)}}
               ELSE {})

RunsOf(d, cs) == UNION {RunFrom(d, cs, 1, busy) : busy \in {"refused", "replaced"}}

(***************************************************************************)
(* The orchestration script.  Powers are in tenths of a dBm.  A step of    *)
(* the model is one statement, or one run of statements between two loop   *)
(* tests, of the script, with the device calls it makes in their order.    *)
(***************************************************************************)
compVars == <<itlaVars, codecVars, gridVars, wssVars, calientVars, predictVars>>

\* the script's own variables, but for where it is and how it ended
scriptVars == <<power_reading, power_reading_count, r1_input_power, channel, power,
                scopeData, scan_data, cycle, consumed, single_channel_probed_power>>

\* calient_get_power(port): any list get_crs_power can build from a response
CalientReadings == {port_fields(d) : d \in SeqsUpTo(ResponseTokens, MaxTokens)}

\* float() of the value of an INPWR token
FloatOfValue(value) ==
    IF value = "-3.2" THEN -32 ELSE IF value = "-12.0" THEN -120 ELSE 0

\* float(reading[1].lstrip('INPWR=')): [raised, value].  lstrip strips the leading
\* characters I, N, P, W, R and =, so "OUTPWR=-4.1" stays as it is and float raises
ParseInputPower(reading) ==
    IF Len(reading) < 2 THEN [raised |-> "IndexError", value |-> 0]
    ELSE IF reading[2].name # "INPWR" THEN [raised |-> "ValueError", value |-> 0]
    ELSE [raised |-> "none", value |-> FloatOfValue(reading[2].value)]

PollCapTx == 5
PollCapRx == 10
InputPowerLimit == -100
VOLTAGE_SHRESHOLD == 1000
SIGNAL_CHANNELS_4101 == <<25, 35, 45, 44>>
SIGNAL_CHANNELS_4102 == <<22>>

\* an uncaught exception ends the script
Abort(error) ==
    /\ outcome' = error
    /\ pc' = "end"

\* a step that makes the calls cs and, when all of them returned, goes on as next
Calls(cs, next) ==
    \E run \in RunsOf(dev, cs) :
        /\ calls' = SubSeq(cs, 1, run.done)
        /\ dev' = run.dev
        /\ IF run.raised # "none" THEN Abort(run.raised) /\ UNCHANGED scriptVars ELSE next

\* a step that calls no device
NoCalls ==
    /\ calls' = <<>>
    /\ UNCHANGED dev

\* lines 617-621
InitialParkingCalls ==
    <<AddCrs(TELEMETRY_TX_CONNECTION), DelCrs(TELEMETRY_RX_CONNECTION),
      AddCrs(TELEMETRY_RX_PARKING)>>

initial_parking ==
    /\ pc = "start"
    /\ Calls(InitialParkingCalls, pc' = "step11" /\ UNCHANGED <<outcome, scriptVars>>)
    /\ UNCHANGED compVars

\* lines 704-741; INTERMEDIATE_NODES is empty
Step11_12Calls ==
    <<DelCrs(TELEMETRY_RX_CONNECTION), AddCrs(TELEMETRY_RX_PARKING),
      WssDeleteAll("r_add", MUX), WssAddGrid("r_add", MUX, "4104", "4201"),
      WssDeleteAll("r_drop", DEMUX), WssAddGrid("r_drop", DEMUX, "5101", "5203"),
      WssDelete("r_drop", DEMUX, MIDDLE_CHANNEL),
      WssAddOne("r_drop", DEMUX, MIDDLE_CHANNEL, "5101", "5204")>>

step11_12 ==
    /\ pc = "step11"
    /\ Calls(Step11_12Calls, pc' = "step14" /\ UNCHANGED <<outcome, scriptVars>>)
    /\ UNCHANGED compVars

\* lines 743-758
Step14Calls ==
    <<DelCrs(TELEMETRY_TX_CONNECTION), AddCrs(TELEMETRY_TX_CONNECTION),
      Itla("ITLA"), Itla("laser_off"), Itla("set_power"),
      Itla("set_first_channel_frequency"), Itla("close"),
      Itla("ITLA"), Itla("laser_on"), Itla("close")>>

step14 ==
    /\ pc = "step14"
    /\ Calls(Step14Calls, pc' = "s14_poll" /\ UNCHANGED <<outcome, scriptVars>>)
    /\ UNCHANGED compVars

\* lines 759-761
s14_poll ==
    /\ pc = "s14_poll"
    /\ \E reading \in CalientReadings :
          Calls(<<GetPower(POWER_CHECK_PORT_TELEMETRY_TX)>>,
                /\ power_reading' = reading
                /\ power_reading_count' = 1
                /\ cycle' = <<"poll">>
                /\ pc' = "s14_test"
                /\ UNCHANGED <<outcome, r1_input_power, channel, power, scopeData, scan_data,
                               consumed, single_channel_probed_power>>)
    /\ UNCHANGED compVars

\* line 762: while len(power_reading) <= 1
s14_test ==
    /\ pc = "s14_test"
    /\ pc' = IF Len(power_reading) <= 1 THEN "s14_retry" ELSE "s14_parse"
    /\ cycle' = <<>>
    /\ NoCalls
    /\ UNCHANGED <<outcome, power_reading, power_reading_count, r1_input_power, channel,
                   power, scopeData, scan_data, consumed, single_channel_probed_power,
                   compVars>>

\* lines 763-767, and 770-772 at the count of 5
TxRetryCalls(capped) ==
    <<DelCrs(TELEMETRY_TX_CONNECTION), AddCrs(TELEMETRY_TX_CONNECTION),
      GetPower(POWER_CHECK_PORT_TELEMETRY_TX)>>
    \o (IF capped THEN <<GetPower(POWER_CHECK_PORT_TELEMETRY_TX)>> ELSE <<>>)

\* lines 763-773: re-seat the Tx cross-connect, poll again, count; at the count of 5
\* prompt the operator, poll once more and break
s14_retry ==
    /\ pc = "s14_retry"
    /\ \E reading \in CalientReadings :
          Calls(TxRetryCalls(power_reading_count + 1 = PollCapTx),
                /\ power_reading_count' = power_reading_count + 1
                /\ power_reading' = reading
                /\ IF power_reading_count' = PollCapTx
                   THEN /\ cycle' = <<"corrective", "poll", "prompt", "poll">>
                        /\ pc' = "s14_parse"
                   ELSE /\ cycle' = <<"corrective", "poll">>
                        /\ pc' = "s14_test"
                /\ UNCHANGED <<outcome, r1_input_power, channel, power, scopeData, scan_data,
                               consumed, single_channel_probed_power>>)
    /\ UNCHANGED compVars

\* line 774: r1_input_power = float(power_reading[1].lstrip('INPWR='))
s14_parse ==
    /\ pc = "s14_parse"
    /\ consumed' = <<power_reading>>
    /\ LET parsed == ParseInputPower(power_reading)
       IN  IF parsed.raised # "none"
           THEN Abort(parsed.raised) /\ UNCHANGED r1_input_power
           ELSE /\ r1_input_power' = parsed.value
                /\ pc' = "rehome_test"
                /\ UNCHANGED outcome
    /\ NoCalls
    /\ UNCHANGED <<power_reading, power_reading_count, channel, power, scopeData,
                   scan_data, cycle, single_channel_probed_power, compVars>>

\* line 776: while r1_input_power < -10
rehome_test ==
    /\ pc = "rehome_test"
    /\ pc' = IF r1_input_power < InputPowerLimit THEN "rehome" ELSE "mid_check"
    /\ NoCalls
    /\ UNCHANGED <<outcome, scriptVars, compVars>>

\* lines 778-786
RehomeCalls ==
    <<Itla("ITLA"), Itla("set_first_channel_frequency"), Itla("laser_on"), Itla("close"),
      GetPower(POWER_CHECK_PORT_TELEMETRY_TX)>>

\* lines 777-787: set the frequency again, switch the laser on, poll and parse
rehome ==
    /\ pc = "rehome"
    /\ \E reading \in CalientReadings :
          Calls(RehomeCalls,
                /\ power_reading' = reading
                /\ consumed' = <<reading>>
                /\ LET parsed == ParseInputPower(reading)
                   IN  IF parsed.raised # "none"
                       THEN Abort(parsed.raised) /\ UNCHANGED r1_input_power
                       ELSE /\ r1_input_power' = parsed.value
                            /\ pc' = "rehome_test"
                            /\ UNCHANGED outcome
                /\ UNCHANGED <<power_reading_count, channel, power, scopeData, scan_data,
                               cycle, single_channel_probed_power>>)
    /\ UNCHANGED compVars

\* line 789: the status of the middle channel, [0] of a list that may be empty, from
\* a query that may raise
mid_check ==
    /\ pc = "mid_check"
    /\ Calls(<<WssGet("r_add")>>,
             /\ \E error \in {"none", "IndexError", "TypeError"} :
                   IF error # "none" THEN Abort(error)
                   ELSE pc' = "s15_poll" /\ UNCHANGED outcome
             /\ UNCHANGED scriptVars)
    /\ UNCHANGED compVars

\* lines 797-799
s15_poll ==
    /\ pc = "s15_poll"
    /\ \E reading \in CalientReadings :
          Calls(<<GetPower(POWER_CHECK_PORT)>>,
                /\ power_reading' = reading
                /\ power_reading_count' = 1
                /\ cycle' = <<"poll">>
                /\ pc' = "s15_test"
                /\ UNCHANGED <<outcome, r1_input_power, channel, power, scopeData, scan_data,
                               consumed, single_channel_probed_power>>)
    /\ UNCHANGED compVars

\* line 800: while len(power_reading) == 1
s15_test ==
    /\ pc = "s15_test"
    /\ pc' = IF Len(power_reading) = 1 THEN "s15_retry" ELSE "s15_parse"
    /\ cycle' = <<>>
    /\ NoCalls
    /\ UNCHANGED <<outcome, power_reading, power_reading_count, r1_input_power, channel,
                   power, scopeData, scan_data, consumed, single_channel_probed_power,
                   compVars>>

\* line 803, and line 810 at the count of 10
RxRetryCalls(capped) ==
    <<GetPower(POWER_CHECK_PORT)>>
    \o (IF capped THEN <<GetPower(POWER_CHECK_PORT)>> ELSE <<>>)

\* lines 801-811: sleep, poll again, count; at the count of 10 prompt the operator,
\* poll once more and break
s15_retry ==
    /\ pc = "s15_retry"
    /\ \E reading \in CalientReadings :
          Calls(RxRetryCalls(power_reading_count + 1 = PollCapRx),
                /\ power_reading_count' = power_reading_count + 1
                /\ power_reading' = reading
                /\ IF power_reading_count' = PollCapRx
                   THEN /\ cycle' = <<"poll", "prompt", "poll">>
                        /\ pc' = "s15_parse"
                   ELSE /\ cycle' = <<"poll">>
                        /\ pc' = "s15_test"
                /\ UNCHANGED <<outcome, r1_input_power, channel, power, scopeData, scan_data,
                               consumed, single_channel_probed_power>>)
    /\ UNCHANGED compVars

PdPowerTooHighLax(r2_output_power) == r2_output_power > -30

\* line 814: if r2_output_power > -10
PdPowerTooHigh(r2_output_power) == r2_output_power > InputPowerLimit

\* lines 812-815: r2_output_power is parsed from a new calient_get_power call
s15_parse ==
    /\ pc = "s15_parse"
    /\ \E reading \in CalientReadings :
          Calls(<<GetPower(POWER_CHECK_PORT)>>,
                /\ consumed' = <<reading>>
                /\ LET parsed == ParseInputPower(reading)
                   IN  IF parsed.raised # "none" THEN Abort(parsed.raised)
                       ELSE IF PdPowerTooHigh(parsed.value) THEN Abort("ValueError")
                       ELSE pc' = "step16" /\ UNCHANGED outcome
                /\ UNCHANGED <<power_reading, power_reading_count, r1_input_power, channel,
                               power, scopeData, scan_data, cycle,
                               single_channel_probed_power>>)
    /\ UNCHANGED compVars

SeqMin(q) == CHOOSE x \in {q[i] : i \in 1..Len(q)} : \A i \in 1..Len(q) : x <= q[i]
SeqMax(q) == CHOOSE x \in {q[i] : i \in 1..Len(q)} : \A i \in 1..Len(q) : x >= q[i]

RECURSIVE SeqSum(_)
SeqSum(q) == IF q = <<>> THEN 0 ELSE Head(q) + SeqSum(Tail(q))

\* list(Scope.getCH1NewData()) of step 1.6, in mV: the captures a scope may deliver
AmplitudeCaptures == {<<900, 1100>>, <<1000, 1002>>}

\* lines 818-838: connect the Rx side, capture the amplitude; above VOLTAGE_SHRESHOLD
\* the script raises ValueError, else the mean is kept
step16 ==
    /\ pc = "step16"
    /\ \E capture \in AmplitudeCaptures :
          Calls(<<DelCrs(TELEMETRY_RX_PARKING), AddCrs(TELEMETRY_RX_CONNECTION)>>,
                /\ single_channel_probed_power' = SeqSum(capture) \div Len(capture)
                /\ IF single_channel_probed_power' > VOLTAGE_SHRESHOLD
                   THEN Abort("ValueError")
                   ELSE pc' = "step17" /\ UNCHANGED outcome
                /\ UNCHANGED <<power_reading, power_reading_count, r1_input_power, channel,
                               power, scopeData, scan_data, cycle, consumed>>)
    /\ UNCHANGED compVars

\* for channel in [x * 10 for x in range(1, 10)]
SweepChannelsRepeated == [x \in 1..9 |-> IF x = 9 THEN 10 ELSE x * 10]

SweepChannels == [x \in 1..9 |-> x * 10]

\* lines 843-880
Step17Calls ==
    <<WssDeleteAll("r_add", MUX), WssAddGrid("r_add", MUX, "4104", "4201")>>
    \o [i \in 1..Len(SIGNAL_CHANNELS_4101) |->
           WssAddOne("r_add", MUX, SIGNAL_CHANNELS_4101[i], "4101", "4201")]
    \o [i \in 1..Len(SIGNAL_CHANNELS_4102) |->
           WssAddOne("r_add", MUX, SIGNAL_CHANNELS_4102[i], "4102", "4201")]
    \o <<WssDeleteAll("r_add", DEMUX), WssAddGrid("r_add", DEMUX, "5101", "5203")>>
    \o [i \in 1..Len(SIGNAL_CHANNELS_4101 \o SIGNAL_CHANNELS_4102) |->
           WssAddOne("r_drop", DEMUX, (SIGNAL_CHANNELS_4101 \o SIGNAL_CHANNELS_4102)[i],
                     "5101", "5201")]
    \o <<DelCrs(TELEMETRY_RX_PARKING), AddCrs(TELEMETRY_RX_CONNECTION)>>

\* lines 840-886: open the Tx channels, scan_data = collections.OrderedDict(), and
\* the first iteration of the for loop
step17 ==
    /\ pc = "step17"
    /\ Calls(Step17Calls,
             /\ scan_data' = <<>>
             /\ channel' = 1
             /\ pc' = "sw_laser"
             /\ UNCHANGED <<outcome, power_reading, power_reading_count, r1_input_power,
                            power, scopeData, cycle, consumed, single_channel_probed_power>>)
    /\ UNCHANGED compVars

\* float(connection.input_power) of the statuses a ROADM may report, in tenths of a dBm
WssInputPowers == {-350, -300, -50}

\* [connection for connection in r_add.wss_get_connections()
\*     if str(connection.connection_id) == str(channel)][0]
QueryChannelStatus(next) ==
    \E error \in {"none", "IndexError", "TypeError"} :
        IF error # "none" THEN Abort(error) /\ UNCHANGED power
        ELSE /\ \E input_power \in WssInputPowers :
                   power' = [connection_id |-> SweepChannels[channel],
                             input_power |-> input_power]
             /\ pc' = next
             /\ UNCHANGED outcome

SweepLaserCallsUnclosed ==
    <<Itla("ITLA"), Itla("laser_off"),
      Itla("ITLA"), Itla("set_first_channel_frequency"), Itla("close"),
      Itla("ITLA"), Itla("laser_on"), Itla("close"),
      WssGet("r_add")>>

\* lines 915-932
SweepLaserCalls ==
    <<Itla("ITLA"), Itla("laser_off"), Itla("close"),
      Itla("ITLA"), Itla("set_first_channel_frequency"), Itla("close"),
      Itla("ITLA"), Itla("laser_on"), Itla("close"),
      WssGet("r_add")>>

\* lines 912-933: tune the laser to the channel, switch it on, query the status
sw_laser ==
    /\ pc = "sw_laser"
    /\ Calls(SweepLaserCalls,
             /\ QueryChannelStatus("sw_wss_test")
             /\ UNCHANGED <<power_reading, power_reading_count, r1_input_power, channel,
                            scopeData, scan_data, cycle, consumed,
                            single_channel_probed_power>>)
    /\ UNCHANGED compVars

WssPowerLowLax(status) == status.input_power < -350

\* float(power.input_power) < -30
WssPowerLow(status) == status.input_power < -300

\* line 934: while float(power.input_power) < -30
sw_wss_test ==
    /\ pc = "sw_wss_test"
    /\ pc' = IF WssPowerLow(power) THEN "sw_wss_retry" ELSE "sw_capture"
    /\ NoCalls
    /\ UNCHANGED <<outcome, scriptVars, compVars>>

WssRetryCallsQueryFirst ==
    <<DelCrs(TELEMETRY_TX_CONNECTION), AddCrs(TELEMETRY_TX_CONNECTION),
      Itla("ITLA"), Itla("laser_off"), Itla("set_first_channel_frequency"),
      WssGet("r_add"), Itla("laser_on"), Itla("close")>>

\* lines 936-951
WssRetryCalls ==
    <<DelCrs(TELEMETRY_TX_CONNECTION), AddCrs(TELEMETRY_TX_CONNECTION),
      Itla("ITLA"), Itla("laser_off"), Itla("set_first_channel_frequency"),
      Itla("laser_on"), Itla("close"), WssGet("r_add")>>

\* lines 935-952: re-seat the Tx cross-connect, tune the laser again, query the status
sw_wss_retry ==
    /\ pc = "sw_wss_retry"
    /\ Calls(WssRetryCalls,
             /\ QueryChannelStatus("sw_wss_test")
             /\ UNCHANGED <<power_reading, power_reading_count, r1_input_power, channel,
                            scopeData, scan_data, cycle, consumed,
                            single_channel_probed_power>>)
    /\ UNCHANGED compVars

trigger_level == 5

\* list(Scope.getCH1NewData()): the captures a scope may deliver
Captures == {<<0, 10>>, <<0, 0>>, <<10, 10>>, <<5, 10>>}

\* lines 953-1038: start the generator, route the channel to port 5204, set up the
\* scope and take the capture
sw_capture ==
    /\ pc = "sw_capture"
    /\ \E capture \in Captures :
          Calls(<<WssAddOne("r_drop", DEMUX, SweepChannels[channel], "5101", "5204")>>,
                /\ scopeData' = capture
                /\ cycle' = <<"capture">>
                /\ pc' = "sw_cap_test"
                /\ UNCHANGED <<outcome, power_reading, power_reading_count, r1_input_power,
                               channel, power, scan_data, consumed,
                               single_channel_probed_power>>)
    /\ UNCHANGED compVars

\* peak_voltage < trigger_level or idle_voltage > trigger_level
CaptureInvalid(capture) ==
    SeqMax(capture) < trigger_level \/ SeqMin(capture) > trigger_level

\* line 1039
sw_cap_test ==
    /\ pc = "sw_cap_test"
    /\ pc' = IF CaptureInvalid(scopeData) THEN "sw_cap_retry" ELSE "sw_save"
    /\ NoCalls
    /\ UNCHANGED <<outcome, scriptVars, compVars>>

\* lines 1040-1054: re-seat the Tx cross-connect, set the scope up again, capture
sw_cap_retry ==
    /\ pc = "sw_cap_retry"
    /\ \E capture \in Captures :
          Calls(<<DelCrs(TELEMETRY_TX_CONNECTION), AddCrs(TELEMETRY_TX_CONNECTION)>>,
                /\ scopeData' = capture
                /\ cycle' = <<"corrective", "capture">>
                /\ pc' = "sw_cap_test"
                /\ UNCHANGED <<outcome, power_reading, power_reading_count, r1_input_power,
                               channel, power, scan_data, consumed,
                               single_channel_probed_power>>)
    /\ UNCHANGED compVars

\* sum(data) / len(data) over the samples below, resp. above, the trigger level
calculate_idle_voltage(capture) ==
    LET below == SelectSeq(capture, LAMBDA x : x < trigger_level)
    IN  IF below = <<>> THEN [raised |-> "ZeroDivisionError", value |-> 0]
        ELSE [raised |-> "none", value |-> SeqSum(below) \div Len(below)]

calculate_peak_voltage(capture) ==
    LET above == SelectSeq(capture, LAMBDA x : x > trigger_level)
    IN  IF above = <<>> THEN [raised |-> "ZeroDivisionError", value |-> 0]
        ELSE [raised |-> "none", value |-> SeqSum(above) \div Len(above)]

\* OrderedDict.__setitem__: a new key goes to the end, a known key keeps its place
SetItem(od, key, value) ==
    IF \E i \in 1..Len(od) : od[i].key = key
    THEN [i \in 1..Len(od) |-> IF od[i].key = key THEN [key |-> key, value |-> value]
                                ELSE od[i]]
    ELSE Append(od, [key |-> key, value |-> value])

\* lines 1056-1066: scan_data[channel] = [peak_voltage, idle_voltage]
sw_save ==
    /\ pc = "sw_save"
    /\ LET idle_voltage == calculate_idle_voltage(scopeData)
           peak_voltage == calculate_peak_voltage(scopeData)
       IN  IF idle_voltage.raised # "none"
           THEN Abort(idle_voltage.raised) /\ UNCHANGED scan_data
           ELSE IF peak_voltage.raised # "none"
           THEN Abort(peak_voltage.raised) /\ UNCHANGED scan_data
           ELSE /\ scan_data' = SetItem(scan_data, SweepChannels[channel],
                                        <<peak_voltage.value, idle_voltage.value>>)
                /\ pc' = "sw_restore"
                /\ UNCHANGED outcome
    /\ NoCalls
    /\ UNCHANGED <<power_reading, power_reading_count, r1_input_power, channel, power,
                   scopeData, cycle, consumed, single_channel_probed_power, compVars>>

\* lines 1068-1076: route the channel back to port 5203; the next iteration, or the
\* end of the loop
sw_restore ==
    /\ pc = "sw_restore"
    /\ Calls(<<WssAddOne("r_drop", DEMUX, SweepChannels[channel], "5101", "5203")>>,
             /\ IF channel < Len(SweepChannels)
                THEN /\ channel' = channel + 1
                     /\ pc' = "sw_laser"
                     /\ UNCHANGED outcome
                ELSE /\ pc' = "end"
                     /\ outcome' = "done"
                     /\ UNCHANGED channel
             /\ UNCHANGED <<power_reading, power_reading_count, r1_input_power, power,
                            scopeData, scan_data, cycle, consumed,
                            single_channel_probed_power>>)
    /\ UNCHANGED compVars

\* the table a ROADM holds when the script starts: what an earlier run left
LeftConnections ==
    [module \in {MUX, DEMUX} |->
        [id \in ChannelIds |->
            IF module = MUX THEN [input_port |-> "4101", output_port |-> "4201"]
            ELSE [input_port |-> "5101", output_port |-> "5204"]]]

InitialDevices ==
    {[open |-> 0, laser |-> laser, crs |-> crs,
      r_add |-> LeftConnections, r_drop |-> LeftConnections] :
        laser \in {"off", "on"},
        crs \in {crss \in SUBSET CrsSpecs : \A x \in crss : Conflicting(x, crss) = {}}}

InitScan ==
    /\ ITLAIdle
    /\ CodecIdle
    /\ GridIdle
    /\ WssIdle
    /\ CalientIdle
    /\ PredictIdle
    /\ pc = "start"
    /\ outcome = "running"
    /\ power_reading = <<>>
    /\ power_reading_count = 0
    /\ r1_input_power = 0
    /\ channel = 0
    /\ power = NoStatus
    /\ scopeData = <<>>
    /\ scan_data = <<>>
    /\ cycle = <<>>
    /\ consumed = <<>>
    /\ single_channel_probed_power = 0
    /\ calls = <<>>
    /\ dev \in InitialDevices

NextScan ==
    \/ initial_parking
    \/ step11_12
    \/ step14
    \/ s14_poll
    \/ s14_test
    \/ s14_retry
    \/ s14_parse
    \/ rehome_test
    \/ rehome
    \/ mid_check
    \/ s15_poll
    \/ s15_test
    \/ s15_retry
    \/ s15_parse
    \/ step16
    \/ step17
    \/ sw_laser
    \/ sw_wss_test
    \/ sw_wss_retry
    \/ sw_capture
    \/ sw_cap_test
    \/ sw_cap_retry
    \/ sw_save
    \/ sw_restore

SpecScan == InitScan /\ [][NextScan]_vars

\* the interpreter runs the script's next statement as long as there is one
SpecScanFair == SpecScan /\ WF_vars(NextScan)


(***************************************************************************)
(* Reading a frame back, as a receiver of the protocol does.               *)
(***************************************************************************)
Signed16(hi, lo) ==
    LET u == hi * 256 + lo IN IF u >= 32768 THEN u - 65536 ELSE u

FrameMode(f) == f[1] % 16
FrameChecksum(f) == f[1] \div 16
FrameRegister(f) == f[2]
FrameData(f) == Signed16(f[3], f[4])

\* the BIP4 of the protocol: bip8 over the low nibble of byte 1 and bytes 2..4,
\* folded as (bip8 >> 4) XOR (bip8 & 0xF)
Bip4Of(b0, b1, b2, b3) ==
    LET bip8 == BitXor(BitXor(BitXor(b0 % 16, b1), b2), b3)
    IN  BitXor(bip8 \div 16, bip8 % 16)

IsByte(x) == x \in 0..255

Conformant(f) ==
    /\ Len(f) = 4
    /\ \A i \in 1..4 : IsByte(f[i])
    /\ FrameChecksum(f) = Bip4Of(f[1], f[2], f[3], f[4])
    /\ FrameMode(f) = 1

(***************************************************************************)
(* C1: every frame the driver writes to the serial session, by any         *)
(* operation, is 4 bytes whose high nibble of byte 1 is the BIP4 of the    *)
(* frame and whose low nibble of byte 1 is 0001 (write).                   *)
(***************************************************************************)
C1_FramesConformant ==
    \A i \in 1..Len(written) : Conformant(written[i])

C1_Witness ==
    /\ call.op = "set_first_channel_frequency"
    /\ Len(written) = 2
    /\ FrameChecksum(written[1]) # 0
    /\ FrameChecksum(written[2]) # FrameChecksum(written[1])

(***************************************************************************)
(* C2: the frame the codec steps build round-trips: bytes 2..4 give back   *)
(* (register, data), the low nibble of byte 1 gives back the mode 0x01,    *)
(* and byte 1 is mode XOR (bip4 << 4) for the BIP4 of the protocol.        *)
(***************************************************************************)
C2_CodecRoundTrip ==
    codecOut # <<>> =>
        LET u  == IF codecIn[2] < 0 THEN codecIn[2] + 65536 ELSE codecIn[2]
            b4 == Bip4Of(1, codecIn[1], u \div 256, u % 256)
        IN  /\ Len(codecOut) = 4
            /\ <<FrameRegister(codecOut), FrameData(codecOut)>> = codecIn
            /\ FrameMode(codecOut) = 1
            /\ codecOut[1] = 1 + 16 * b4

C2_Witness ==
    /\ codecOut # <<>>
    /\ codecIn[2] < 0
    /\ codecIn[1] = 255
    /\ FrameChecksum(codecOut) = 15

(***************************************************************************)
(* C3: set_power rejects every value below 6.0 or above 13.5 dBm with      *)
(* PowerLimitError and no write to the session, and accepts every value    *)
(* of the closed range, 6.0 and 13.5 included, writing exactly one frame.  *)
(***************************************************************************)
C3_PowerRange ==
    call.op = "set_power" =>
        IF call.arg < 600 \/ call.arg > 1350
        THEN call.raised = "PowerLimitError" /\ written = <<>>
        ELSE call.raised = "none" /\ Len(written) = 1

C3_Witness ==
    /\ call.op = "set_power"
    /\ call.arg = 1350
    /\ call.raised = "none"
    /\ Len(written) = 1

(***************************************************************************)
(* C4: for every accepted power h/100 dBm, h in 600..1350, set_power       *)
(* writes one frame with register 0x31 whose data is h, never h-1 or h+1.  *)
(***************************************************************************)
C4_PowerEncodesHundredths ==
    (call.op = "set_power" /\ call.arg \in 600..1350) =>
        /\ Len(written) = 1
        /\ FrameRegister(written[1]) = 49
        /\ FrameData(written[1]) = call.arg

(***************************************************************************)
(* C5: set_first_channel_frequency writes exactly two frames: first        *)
(* register 0x35 with the integer THz part of freq, then register 0x36     *)
(* with the fractional part scaled by 10000, and nothing else.             *)
(***************************************************************************)
C5_FrequencyFrames ==
    call.op = "set_first_channel_frequency" =>
        /\ Len(written) = 2
        /\ FrameRegister(written[1]) = 53
        /\ FrameData(written[1]) = call.arg \div 1000
        /\ FrameRegister(written[2]) = 54
        /\ FrameData(written[2]) = 10 * (call.arg % 1000)

\* the part of C5 the code keeps: two frames, 0x35 before 0x36, nothing else
FrequencyWriteOrder ==
    call.op = "set_first_channel_frequency" =>
        /\ Len(written) = 2
        /\ FrameRegister(written[1]) = 53
        /\ FrameData(written[1]) = call.arg \div 1000
        /\ FrameRegister(written[2]) = 54
        /\ FrameData(written[2]) \in {10 * (call.arg % 1000), 10 * (call.arg % 1000) - 1}

(***************************************************************************)
(* C6: for every channel index n in 0..65535, set_channel(n) does not      *)
(* fail and writes exactly one frame with register 0x30 whose data bytes   *)
(* are the raw big-endian 16-bit value of n.                               *)
(***************************************************************************)
C6_ChannelRaw16 ==
    call.op = "set_channel" =>
        /\ call.raised = "none"
        /\ Len(written) = 1
        /\ FrameRegister(written[1]) = 48
        /\ written[1][3] = call.arg \div 256
        /\ written[1][4] = call.arg % 256

C8_StartBelowEnd ==
    \A i \in 1..Len(connections) :
        FloatOfStr(connections[i].start_freq) < FloatOfStr(connections[i].end_freq)

(***************************************************************************)
(* C9: wss_add_connections puts the whole list into one configuration      *)
(* document, one connection element per input connection in input order,   *)
(* and submits it in exactly one edit_config RPC whatever the size of the  *)
(* list; after the call the device holds every connection of the list or   *)
(* is unchanged, never a strict subset.                                    *)
(***************************************************************************)
ElementOf(el, c) ==
    /\ Len(el.dn) = 5
    /\ el.dn[4] = <<"module", c.module>>
    /\ el.dn[5] = <<"connection", c.connection_id>>
    /\ el.config.maintenance_state = c.operation
    /\ el.config.blocked = c.blocked
    /\ el.config.start_freq = c.start_freq
    /\ el.config.end_freq = c.end_freq
    /\ el.config.attenuation = c.attenuation
    /\ el.config.input_port_reference[4] = <<"port", c.input_port>>
    /\ el.config.output_port_reference[4] = <<"port", c.output_port>>
    /\ el.config.custom_name = c.name

ConnKey(c) == <<c.module, c.connection_id>>

\* the table holds every connection of the list (the last one of a repeated
\* id) and what it held before under every other id
HoldsAll(after, before, conns) ==
    /\ DOMAIN after = DOMAIN before \cup {ConnKey(conns[i]) : i \in 1..Len(conns)}
    /\ \A k \in DOMAIN before :
          (\A i \in 1..Len(conns) : ConnKey(conns[i]) # k) => after[k] = before[k]
    /\ \A i \in 1..Len(conns) :
          (\A j \in (i + 1)..Len(conns) : ConnKey(conns[j]) # ConnKey(conns[i]))
              => /\ after[ConnKey(conns[i])].output_port_reference[4][2] = conns[i].output_port
                 /\ after[ConnKey(conns[i])].start_freq = conns[i].start_freq
                 /\ after[ConnKey(conns[i])].end_freq = conns[i].end_freq
                 /\ after[ConnKey(conns[i])].attenuation = conns[i].attenuation

C9_AddOneDocument ==
    [][wssCall'.op = "wss_add_connections" =>
        /\ Len(rpcLog') = 1
        /\ rpcLog'[1].rpc = "edit_config"
        /\ Len(rpcLog'[1].connections) = Len(connections)
        /\ \A i \in 1..Len(connections) : ElementOf(rpcLog'[1].connections[i], connections[i])
        /\ \/ device' = device
           \/ HoldsAll(device', device, connections)]_vars

C9_Witness ==
    /\ wssCall.op = "wss_add_connections"
    /\ wssCall.reply = "ok"
    /\ Len(connections) = 2
    /\ ConnKey(connections[1]) # ConnKey(connections[2])
    /\ Len(rpcLog) = 1
    /\ Len(rpcLog[1].connections) = 2
    /\ DOMAIN device = {ConnKey(connections[1]), ConnKey(connections[2])}

C11_FailuresSurface ==
    (/\ wssCall.op \in {"wss_add_connections", "wss_delete_connection",
                        "wss_get_connections"}
     /\ wssCall.reply \in {"rpc-error", "transport"})
        => wssCall.returned # "normal"

(***************************************************************************)
(* C12: wss_get_connections fails whenever a connection record of the      *)
(* reply lacks a required field (a dn component, a config child, the       *)
(* state input or output power), and whenever every record is complete it  *)
(* returns one ConnectionStatus per record, carrying that record's own     *)
(* values.                                                                 *)
(***************************************************************************)
Complete(record) ==
    /\ {"dn", "config", "state"} \subseteq DOMAIN record
    /\ Len(record.dn) = 5
    /\ ConfigChildren \subseteq DOMAIN record.config
    /\ {"input_channel_attributes", "output_channel_attributes"} \subseteq DOMAIN record.state
    /\ "power" \in DOMAIN record.state.input_channel_attributes
    /\ "power" \in DOMAIN record.state.output_channel_attributes

CarriesRecord(status, record) ==
    /\ status.module = record.dn[4][2]
    /\ status.connection_id = record.dn[5][2]
    /\ status.output_port = record.config.output_port_reference[4][2]
    /\ status.start_freq = record.config.start_freq
    /\ status.input_power = record.state.input_channel_attributes.power

C12_GetCompleteOrError ==
    (wssCall.op = "wss_get_connections" /\ wssCall.reply = "ok") =>
        LET data == rpcLog[1].data
        IN  IF \E i \in 1..Len(data) : ~Complete(data[i])
            THEN wssCall.returned # "normal"
            ELSE /\ wssCall.returned = "normal"
                 /\ Len(statusOut) = Len(data)
                 /\ \A i \in 1..Len(data) : CarriesRecord(statusOut[i], data[i])

(***************************************************************************)
(* C13: serializing a connection in the document format of                 *)
(* wss_add_connections and parsing the query record with the same dn and   *)
(* config values is a round trip: every status the query returns has the   *)
(* module, connection_id, operation, blocked, input_port, output_port,     *)
(* start_freq, end_freq, attenuation and name of the connection that was   *)
(* serialized, and ne, chassis, card of the dn's first three pairs.        *)
(***************************************************************************)
SameConnection(status, c) ==
    /\ status.module = c.module
    /\ status.connection_id = c.connection_id
    /\ status.operation = c.operation
    /\ status.blocked = c.blocked
    /\ status.input_port = c.input_port
    /\ status.output_port = c.output_port
    /\ status.start_freq = c.start_freq
    /\ status.end_freq = c.end_freq
    /\ status.attenuation = c.attenuation
    /\ status.name = c.name

AddThenDel ==
    /\ tl1Call.op = "Del_CRS_Calient"
    /\ tl1Prev.op = "Add_CRS_Calient"
    /\ tl1Call.crs = tl1Prev.crs
    /\ tl1Call.raised = "none"
    /\ tl1Prev.raised = "none"

DelOfAbsent ==
    /\ tl1Call.op = "Del_CRS_Calient"
    /\ tl1Call.crs \notin tl1Call.before
    /\ tl1Written # <<>>

FieldRank(name) == IF name = "crs" THEN 1 ELSE IF name = "INPWR" THEN 2 ELSE 3

FieldsPresent(data) ==
    {name \in {"crs", "INPWR", "OUTPWR"} :
        \E i \in 1..Len(data) : data[i].name = name /\ data[i].wellformed}

C15_PortSumFields ==
    tl1Call.op = "get_crs_power" =>
        /\ Len(tl1Written) = 1
        /\ tl1Written[1].verb = "RTRV-PORT-SUM"
        /\ Len(portOut) = Cardinality(FieldsPresent(port_data))
        /\ {portOut[i].name : i \in 1..Len(portOut)} = FieldsPresent(port_data)
        /\ \A i \in 1..Len(portOut) :
              /\ portOut[i].wellformed
              /\ \E k \in 1..Len(port_data) : port_data[k] = portOut[i]
              /\ \A j \in (i + 1)..Len(portOut) :
                    FieldRank(portOut[i].name) < FieldRank(portOut[j].name)

C15_Witness ==
    /\ tl1Call.op = "get_crs_power"
    /\ Len(port_data) = 3
    /\ FieldsPresent(port_data) = {"INPWR", "OUTPWR"}
    /\ Len(portOut) = 2
    /\ portOut[1].name = "INPWR"
    /\ portOut[2].name = "OUTPWR"

(***************************************************************************)
(* C16: in the power-poll waits of step 1.4 (cap 5) and step 1.5 (cap 10)  *)
(* every poll that returns fewer than 2 fields (0 or 1) triggers exactly   *)
(* one corrective retry cycle before the next decision: the wait is left   *)
(* from its test only with a reading of 2 fields or more, and each turn of *)
(* the wait is one corrective action followed by exactly one re-poll.      *)
(***************************************************************************)
PollTests == {"s14_test", "s15_test"}

PollExits == {"s14_parse", "s15_parse"}

C16_OneCorrectiveCycle ==
    /\ (pc \in PollExits /\ cycle = <<>>) => Len(power_reading) >= 2
    /\ (pc \in PollTests \cup PollExits /\ power_reading_count > 1 /\ cycle # <<>>) =>
           cycle = <<"corrective", "poll">>

(***************************************************************************)
(* C17: when a power-poll wait has used up its cap of attempts and the     *)
(* reading still has fewer than 2 fields, the run stops with a             *)
(* convergence-timeout error: it does not go on to the statement after the *)
(* wait, where the reading would be indexed and parsed.                    *)
(***************************************************************************)
CapOf(at) == IF at = "s14_parse" THEN PollCapTx ELSE PollCapRx

C17_TimeoutOnExhaustedCap ==
    (pc \in PollExits /\ power_reading_count = CapOf(pc) /\ Len(power_reading) < 2) =>
        outcome = "ConvergenceTimeoutError"

(***************************************************************************)
(* C18: every wait loop of the orchestration ends after a bounded number   *)
(* of attempts whatever the devices report: the run does not stay for ever *)
(* in the power-poll loops, in the laser re-home loop, in the WSS          *)
(* input-power loop or in the capture-validity loop.                       *)
(***************************************************************************)
PollLoops == {"s14_test", "s14_retry", "s15_test", "s15_retry"}

RehomeLoop == {"rehome_test", "rehome"}

WssLoop == {"sw_wss_test", "sw_wss_retry"}

CaptureLoop == {"sw_cap_test", "sw_cap_retry"}

C18_WaitsAreBounded ==
    /\ []<>(pc \notin PollLoops)
    /\ []<>(pc \notin RehomeLoop)
    /\ []<>(pc \notin WssLoop)
    /\ []<>(pc \notin CaptureLoop)

(***************************************************************************)
(* C19: the scan record is append-only and ordered by scan sequence.  A    *)
(* step of the sweep leaves scan_data as it is or appends one entry, whose *)
(* key is the next of 10, 20, ..., 90; no entry is removed or overwritten. *)
(* When a channel's iteration has saved its result scan_data holds one     *)
(* entry per channel swept so far, the last keyed by that channel, and at  *)
(* the end of the sweep it holds exactly the 9 keys 10, 20, ..., 90.       *)
(***************************************************************************)
KeysOf(od) == [i \in 1..Len(od) |-> od[i].key]

AppendsNextKey ==
    /\ Len(scan_data') = Len(scan_data) + 1
    /\ SubSeq(scan_data', 1, Len(scan_data)) = scan_data
    /\ scan_data'[Len(scan_data')].key = 10 * Len(scan_data')

C19_ScanDataAppendOnly ==
    /\ [][scan_data' = scan_data \/ AppendsNextKey]_vars
    /\ [](pc = "sw_restore" =>
             /\ Len(scan_data) = channel
             /\ KeysOf(scan_data) = [i \in 1..channel |-> 10 * i])
    /\ [](outcome = "done" => KeysOf(scan_data) = [i \in 1..9 |-> 10 * i])

C19_Witness ==
    /\ outcome = "done"
    /\ Len(scan_data) = 9
    /\ scan_data[9].key = 90

(***************************************************************************)
(* C20: scan_data[ch] is written only when the channel's checks have       *)
(* succeeded.  At every step that changes scan_data the last WSS status    *)
(* queried is the one of the channel written and reports an input power of *)
(* at least -30 dBm, and the capture the entry is computed from has        *)
(* min(data) <= trigger_level <= max(data).                                *)
(***************************************************************************)
C20_WrittenOnlyOnSuccess ==
    [][scan_data' # scan_data =>
          /\ pc = "sw_save"
          /\ scan_data' # <<>>
          /\ power.connection_id = scan_data'[Len(scan_data')].key
          /\ power.input_power >= -300
          /\ SeqMin(scopeData) <= trigger_level
          /\ trigger_level <= SeqMax(scopeData)
          /\ scan_data'[Len(scan_data')].value =
                 <<calculate_peak_voltage(scopeData).value,
                   calculate_idle_voltage(scopeData).value>>]_vars

C20_Witness ==
    /\ pc = "sw_restore"
    /\ channel = 2
    /\ Len(scan_data) = 2
    /\ scan_data[2].key = 20
    /\ power = [connection_id |-> 20, input_power |-> -300]
    /\ cycle = <<"corrective", "capture">>

(***************************************************************************)
(* C28: whenever the script consumes a power reading of 2 fields or more,  *)
(* the element it parses as the input power, index 1 of the list, is the   *)
(* INPWR field, whichever fields the response holds, and the parse to a    *)
(* number succeeds.                                                        *)
(***************************************************************************)
C28_IndexOneIsInputPower ==
    (consumed # <<>> /\ Len(consumed[1]) >= 2) =>
        /\ consumed[1][2].name = "INPWR"
        /\ ParseInputPower(consumed[1]).raised = "none"

(***************************************************************************)
(* C29: in step 1.5 the power compared with the -10 dBm limit is taken     *)
(* from the very reading the wait loop before it accepted: the statement   *)
(* after the loop consumes power_reading and no other reading.             *)
(***************************************************************************)
C29_ConsumesAcceptedReading ==
    [][pc = "s15_parse" => consumed' = <<power_reading>>]_vars

(***************************************************************************)
(* C30: for every capture that lets the capture-validity loop exit, the    *)
(* idle and the peak average are each taken over a non-empty set of        *)
(* samples, so neither divides by zero, also when min(data) or max(data)   *)
(* equals trigger_level.                                                   *)
(***************************************************************************)
C30_AveragesNonEmpty ==
    pc = "sw_save" =>
        /\ calculate_idle_voltage(scopeData).raised = "none"
        /\ calculate_peak_voltage(scopeData).raised = "none"

(***************************************************************************)
(* C23: for every input whose quotient peak_voltage / pd_response is zero  *)
(* or negative the power prediction raises ValueError, the one error of    *)
(* its invalid inputs, and returns no value.                               *)
(***************************************************************************)
QuotientNotPositive ==
    /\ predictIn.pd_response # 0
    /\ predictIn.peak_voltage * predictIn.pd_response <= 0

C23_NonPositiveQuotientRaises ==
    (predictOut.called /\ QuotientNotPositive) => predictOut.raised = "ValueError"

C23_Witness ==
    /\ predictOut.called
    /\ predictIn.peak_voltage = 0
    /\ predictIn.pd_response = 2
    /\ predictIn.existing_channel_num = -1
    /\ ~ predictIn.ints
    /\ predictOut.raised = "ValueError"

(***************************************************************************)
(* C21: every ConnectionStatus the script reads or tests, the input power  *)
(* of the middle channel and of each scanned channel, comes from a         *)
(* wss_get_connections query made after the latest mutating call (laser    *)
(* write, cross-connect add or delete, WSS add or delete): where a status  *)
(* is about to be used, the step before made the query on the add ROADM    *)
(* and no mutating call after it.                                          *)
(***************************************************************************)
Mutating(c) ==
    c.op \in ItlaWrites \cup {"Add_CRS_Calient", "Del_CRS_Calient", "wss_add_connections",
                              "wss_delete_connection"}

QueriedLast(cs) ==
    \E i \in 1..Len(cs) :
        /\ cs[i].target = "r_add"
        /\ cs[i].op = "wss_get_connections"
        /\ \A j \in (i + 1)..Len(cs) : ~ Mutating(cs[j])

C21_StatusIsFresh ==
    /\ pc = "s15_poll" => QueriedLast(calls)
    /\ pc = "sw_wss_test" => (QueriedLast(calls) /\ power.connection_id = 10 * channel)

C21_Witness ==
    /\ pc = "sw_wss_test"
    /\ Len(calls) = 8
    /\ calls[1].op = "Del_CRS_Calient"
    /\ calls[6].op = "laser_on"
    /\ calls[8].op = "wss_get_connections"
    /\ power = [connection_id |-> 30, input_power |-> -350]

(***************************************************************************)
(* C22: every change to a configured wavelength-switch connection is made  *)
(* by delete-then-add: whenever a step calls wss_add_connections with a    *)
(* connection that is configured on that ROADM at the moment of the call,  *)
(* a wss_delete_connection of it (or of 'all' on its module) has been made *)
(* since it was last added - that is, no connection of an add is in the    *)
(* ROADM's table when the add is made.                                     *)
(***************************************************************************)
TableOf(d, node) == IF node = "r_add" THEN d.r_add ELSE d.r_drop

AddsOnlyAbsent(d, cs) ==
    \A i \in 1..Len(cs) :
        cs[i].op = "wss_add_connections" =>
            \A id \in cs[i].ids :
                TableOf(DevAfter(d, cs, i - 1, "refused"), cs[i].target)[cs[i].module][id]
                    = NoRoute

C22_DeleteThenAdd == [][AddsOnlyAbsent(dev, calls')]_vars

(***************************************************************************)
(* C24: at every point at most one ITLA serial session is open, every      *)
(* laser write (laser_on, laser_off, set_power,                            *)
(* set_first_channel_frequency) goes to a session that is open, and every  *)
(* session is closed before the next one is opened.                        *)
(***************************************************************************)
SessionsDisciplined(d, cs) ==
    \A i \in 1..Len(cs) :
        LET open == DevAfter(d, cs, i - 1, "refused").open
        IN  /\ open <= 1
            /\ (cs[i].target = "itla" /\ cs[i].op = "ITLA") => open = 0
            /\ (cs[i].target = "itla" /\ cs[i].op \in ItlaWrites) => open = 1

C24_OneOpenSession ==
    /\ [][SessionsDisciplined(dev, calls')]_vars
    /\ [](dev.open <= 1)

C24_Witness ==
    /\ pc = "sw_wss_test"
    /\ Len(calls) = 10
    /\ calls[4].op = "ITLA"
    /\ calls[7].op = "ITLA"
    /\ calls[8].op = "laser_on"
    /\ dev.open = 0
    /\ dev.laser = "on"

(***************************************************************************)
(* C25: the Telemetry Rx cross-connect is protected from over-power.  From *)
(* the initial parking to the end of step 1.5 the Rx side is parked;       *)
(* TELEMETRY_RX_CONNECTION is added only after a reading of the            *)
(* power-check port gave an input power of at most -10 dBm; when the       *)
(* reading is above -10 dBm the run aborts with ValueError and the Rx side *)
(* is still parked.                                                        *)
(***************************************************************************)
Parked(d) ==
    /\ TELEMETRY_RX_PARKING \in d.crs
    /\ TELEMETRY_RX_CONNECTION \notin d.crs

BeforeRxConnect ==
    {"step11", "step14", "s14_poll", "s14_test", "s14_retry", "s14_parse", "rehome_test",
     "rehome", "mid_check", "s15_poll", "s15_test", "s15_retry", "s15_parse", "step16"}

RxAdded ==
    /\ TELEMETRY_RX_CONNECTION \notin dev.crs
    /\ TELEMETRY_RX_CONNECTION \in dev'.crs

ReadAtMostLimit ==
    /\ Len(calls) = 1
    /\ calls[1].op = "calient_get_power"
    /\ calls[1].crs = <<POWER_CHECK_PORT>>
    /\ consumed # <<>>
    /\ Len(consumed[1]) >= 2
    /\ consumed[1][2].name = "INPWR"
    /\ FloatOfValue(consumed[1][2].value) <= -100

ReadsAboveLimit ==
    /\ pc = "s15_parse"
    /\ outcome' # "socket.error"
    /\ Len(consumed'[1]) >= 2
    /\ consumed'[1][2].name = "INPWR"
    /\ FloatOfValue(consumed'[1][2].value) > -100

C25_RxProtected ==
    /\ [](pc \in BeforeRxConnect => Parked(dev))
    /\ [][RxAdded => (pc = "step16" /\ ReadAtMostLimit)]_vars
    /\ [][ReadsAboveLimit => (outcome' = "ValueError" /\ pc' = "end" /\ Parked(dev'))]_vars

C25_Witness ==
    /\ pc = "step17"
    /\ TELEMETRY_RX_CONNECTION \in dev.crs
    /\ TELEMETRY_RX_PARKING \notin dev.crs
    /\ consumed # <<>>
    /\ Len(consumed[1]) = 3
    /\ consumed[1][2].value = "-12.0"

(***************************************************************************)
(* C26: when step 1.7 completes, every DEMUX connection of the drop node   *)
(* is routed to port 5203, but for the signal channels 25, 35, 45, 44 and  *)
(* 22, which are routed to port 5201; none is routed to the telemetry port *)
(* 5204.                                                                   *)
(***************************************************************************)
SignalChannels == {25, 35, 45, 44, 22}

C26_DropRoutingAfterStep17 ==
    (pc = "sw_laser" /\ channel = 1) =>
        \A id \in ChannelIds :
            dev.r_drop[DEMUX][id].output_port =
                IF id \in SignalChannels THEN "5201" ELSE "5203"

(***************************************************************************)
(* C27: in step 1.6, when the mean of the capture is above                 *)
(* VOLTAGE_SHRESHOLD the run shuts the laser off, closes the ITLA session  *)
(* and raises an error; otherwise the mean is saved as                     *)
(* single_channel_probed_power and the run goes on.  The run never ends    *)
(* with the error of step 1.6 while the laser is emitting.                 *)
(***************************************************************************)
C27_Step16ClosesLaser ==
    [][pc = "step16" =>
          /\ (outcome' = "ValueError" =>
                 /\ single_channel_probed_power' > 1000
                 /\ dev'.laser = "off"
                 /\ dev'.open = 0)
          /\ (pc' = "step17" =>
                 /\ single_channel_probed_power' <= 1000
                 /\ outcome' = "running")]_vars

(***************************************************************************)
(* C31: at each scope capture of the sweep of a channel, that channel is   *)
(* the only DEMUX connection of the drop node routed to the telemetry port *)
(* 5204: the channels scanned before are back on port 5203 and no other    *)
(* channel, the middle channel 48 included, is routed to 5204.             *)
(***************************************************************************)
C31_OnlySweptChannelOnTelemetryPort ==
    pc = "sw_cap_test" =>
        \A id \in ChannelIds :
            dev.r_drop[DEMUX][id].output_port = "5204" <=> id = SweepChannels[channel]

====
